---- MODULE Spec2Model ----
(***************************************************************************)
(* Model of pare: paired FASTQ reads -> compressed artifact -> reads.      *)
(* Bytes are integers 0..255, strings and byte vectors are sequences of    *)
(* bytes.  The xz layer and the tar container are the external libraries   *)
(* xz2 and tar.  An xz stream is kept as the bytes it decodes to and       *)
(* whether it is intact, its length in bytes is any length the format      *)
(* allows; the tar container is a list of named entries with a declared    *)
(* size.                                                                   *)
(***************************************************************************)
EXTENDS Integers, Sequences, FiniteSets, TLC

\* ---------------------------------------------------------------- bounds
MaxPairs == 2
MaxSeqLen == 1
MaxTail == 6
MaxCalls == 3
MaxGets == 2
MaxRecords == 2
MaxLetters == 3
MaxApplications == 2
MaxLines == 5

\* ------------------------------------------------------- byte utilities
Last(s) == s[Len(s)]
Front(s) == SubSeq(s, 1, Len(s) - 1)
Drop(s, n) == SubSeq(s, n + 1, Len(s))
Take(s, n) == SubSeq(s, 1, n)

\* index of the first occurrence of byte d in s at or after i, 0 if none
FirstIndex(s, d, i) ==
  LET at == {j \in i..Len(s) : s[j] = d}
  IN IF at = {} THEN 0 ELSE CHOOSE j \in at : \A k \in at : j <= k

\* BufRead::read_until: the bytes up to and including the first delim, or
\* everything that is left when the delimiter never comes.
read_until(s, delim) ==
  LET k == FirstIndex(s, delim, 1)
      n == IF k = 0 THEN Len(s) ELSE k
  IN [buf |-> Take(s, n), rest |-> Drop(s, n)]

\* Read::read_exact into a buffer of n zeros: n bytes, or an error after the
\* bytes that were left have been copied to the front of the buffer
read_exact(s, n) ==
  IF Len(s) >= n
  THEN [ok |-> TRUE, buf |-> Take(s, n), rest |-> Drop(s, n)]
  ELSE [ok |-> FALSE, buf |-> s \o [i \in 1..(n - Len(s)) |-> 0], rest |-> <<>>]

IsCont(b) == b >= 128 /\ b <= 191

RECURSIVE from_utf8(_)
\* String::from_utf8 succeeds exactly on well-formed UTF-8.
from_utf8(b) ==
  IF Len(b) = 0 THEN TRUE
  ELSE LET c == b[1] IN
    IF c < 128 THEN from_utf8(Drop(b, 1))
    ELSE IF c >= 194 /\ c <= 223
      THEN Len(b) >= 2 /\ IsCont(b[2]) /\ from_utf8(Drop(b, 2))
    ELSE IF c >= 224 /\ c <= 239
      THEN /\ Len(b) >= 3
           /\ IsCont(b[2]) /\ IsCont(b[3])
           /\ (c = 224 => b[2] >= 160)
           /\ (c = 237 => b[2] <= 159)
           /\ from_utf8(Drop(b, 3))
    ELSE IF c >= 240 /\ c <= 244
      THEN /\ Len(b) >= 4
           /\ IsCont(b[2]) /\ IsCont(b[3]) /\ IsCont(b[4])
           /\ (c = 240 => b[2] >= 144)
           /\ (c = 244 => b[2] <= 143)
           /\ from_utf8(Drop(b, 4))
    ELSE FALSE

\* ------------------------------------------------------------ constants
\* b"PARE lzma_single_file v1\xFF"
FILE_VERSION_SINGLE ==
  <<80, 65, 82, 69, 32, 108, 122, 109, 97, 95, 115, 105, 110, 103, 108, 101,
    95, 102, 105, 108, 101, 32, 118, 49, 255>>

\* b"PARE lzma_multi_stream v1\xFF"
FILE_VERSION_MULTI ==
  <<80, 65, 82, 69, 32, 108, 122, 109, 97, 95, 109, 117, 108, 116, 105, 95,
    115, 116, 114, 101, 97, 109, 32, 118, 49, 255>>

SENTINEL == <<255>>
NEWLINE == <<10>>

\* ---------------------------------------------------------- record model
\* FastQRead::default()
DefaultRead == [letters |-> <<>>, qualities |-> <<>>, title |-> <<>>, sub_title |-> <<>>]

FastQRead(t, st, l, q) == [letters |-> l, qualities |-> q, title |-> t, sub_title |-> st]

\* ------------------------------------------------------------ xz layer
\* XzEncoder::new(sink, level) fed with b and finished: a stream that
\* decodes to b.  The LZMA coding of its bytes is the library's and is not
\* spelled out.
XzEncoder(b) == [xz |-> b, intact |-> TRUE]

\* a stream whose compressed bytes were damaged: the decoder yields the
\* bytes `yielded` and then fails
XzDamaged(yielded) == [xz |-> yielded, intact |-> FALSE]

\* no stream was written yet
NoArtifact == [xz |-> <<>>, intact |-> FALSE]

\* x rounded up to a multiple of four
Pad4(x) == 4 * ((x + 3) \div 4)

\* the lengths in bytes the finished stream of b can have.  Header, index
\* and footer make 32 bytes; a block adds its header and check, 20 bytes,
\* and its LZMA2 data padded to a multiple of four.  The data is b stored
\* uncoded (3 bytes of chunk header, b, 1 byte of end marker) or, when that
\* comes out shorter than Len(b), b range-coded into 6 bytes or more behind
\* a chunk header of 6; a long b adds chunk headers and wider index fields.
\* How well b compresses decides: the length can be less than, equal to or
\* more than Len(b).
XzLengths(b) ==
  LET stored == 52 + Pad4(Len(b) + 4) IN
  IF Len(b) = 0 THEN {32}
  ELSE IF Len(b) <= 6 THEN {stored}
  ELSE {n \in (IF stored < 68 THEN stored ELSE 68)
                ..(52 + Pad4(Len(b) + 6) + 4 * (Len(b) \div 64)) : n % 4 = 0}

\* XzDecoder::new(source) read to the end: the payload of an intact stream;
\* of a damaged stream the bytes it yields, followed by an I/O error
XzDecoder(s) == [ok |-> s.intact, data |-> s.xz]

\* a finished stream of n bytes read as a file: the stream header's magic
\* and, where the coded data is, zeros
XzBytes(n) == [i \in 1..n |-> IF i <= 6 THEN <<253, 55, 122, 88, 90, 0>>[i] ELSE 0]

\* the dictionary of the encoder XzEncoder::new(sink, level) makes: 1 MiB
\* at level 1 (the spools), 64 MiB at level 9
XzDictSize(level) == IF level = 1 THEN 1048576 ELSE 67108864

\* the bytes the encoder's window holds before it has to encode and emit to
\* make room: the dictionary, half of it again, half a MiB, and the margins
\* around the bytes being matched
XzWindow(level) == XzDictSize(level) + XzDictSize(level) \div 2 + 524288 + 12699

\* Write::write on an XzEncoder that holds held bytes, with a buffer of n
\* bytes: how many of them it can take.  All of them while the window has
\* room; past that the call returns once its output buffer is full, having
\* taken what fitted the window or more (one byte at least).
XzTaken(held, n, level) ==
  IF n = 0 \/ held + n <= XzWindow(level)
  THEN {n}
  ELSE (IF held < XzWindow(level) THEN XzWindow(level) - held ELSE 1)..n

\* the same call on the bytes themselves: what the encoder has taken
\* afterwards (the callers here do not look at the count the call returns)
XzWrite(taken, buf, level) ==
  IF XzTaken(Len(taken), Len(buf), level) = {Len(buf)}
  THEN {taken \o buf}
  ELSE {taken \o Take(buf, k) : k \in XzTaken(Len(taken), Len(buf), level)}

\* Write::write on the BufWriter around the single-file encoder: a buffer
\* shorter than its capacity is kept and later written out in full, a
\* longer one is passed to the encoder's write as it is
BufTaken(held, n) == IF n < 8192 THEN {n} ELSE XzTaken(held, n, 9)

BufWrite(taken, buf) ==
  IF BufTaken(Len(taken), Len(buf)) = {Len(buf)}
  THEN {taken \o buf}
  ELSE {taken \o Take(buf, k) : k \in BufTaken(Len(taken), Len(buf))}

RECURSIVE XzWriteEach(_, _, _)
\* the writes of bufs, one after the other, on an XzEncoder
XzWriteEach(taken, bufs, level) ==
  IF Len(bufs) = 0 THEN {taken}
  ELSE UNION {XzWriteEach(t, Tail(bufs), level) : t \in XzWrite(taken, bufs[1], level)}

RECURSIVE BufWriteEach(_, _)
\* the writes of bufs, one after the other, on the BufWriter
BufWriteEach(taken, bufs) ==
  IF Len(bufs) = 0 THEN {taken}
  ELSE UNION {BufWriteEach(t, Tail(bufs)) : t \in BufWrite(taken, bufs[1])}

RECURSIVE BufTakenEach(_, _)
\* the same writes by their lengths lens: the bytes the encoder holds after
BufTakenEach(held, lens) ==
  IF Len(lens) = 0 THEN {held}
  ELSE UNION {BufTakenEach(held + k, Tail(lens)) : k \in BufTaken(held, lens[1])}

RECURSIVE Concat(_)
\* the buffers of bufs joined
Concat(bufs) == IF Len(bufs) = 0 THEN <<>> ELSE bufs[1] \o Concat(Tail(bufs))

\* ------------------------------------------------- single-file encoder
\* XZSingleFileWriter::write_u8: two writes, the record and the sentinel
write_u8(record) == <<record, SENTINEL>>

\* XZSingleFileWriter::write_string: the string's bytes through write_u8
write_string(record) == write_u8(record)

\* the buffers one loop iteration of XZSingleFileWriter::compress hands to
\* encoder.write, in order
single_compress_pair(a, b) ==
  write_string(a.title) \o write_string(b.title)
    \o write_u8(a.letters) \o write_u8(b.letters)
    \o <<a.qualities, b.qualities>>

RECURSIVE Framed(_)
\* the records of the pairs in, one after the other, as read_next of either
\* reader takes them apart
Framed(in) ==
  IF Len(in) = 0 THEN <<>>
  ELSE Concat(single_compress_pair(in[1].r1, in[1].r2)) \o Framed(Tail(in))

\* ------------------------------------------------- multi-stream encoder
RECURSIVE Octal(_)
\* the digits of n in base 8, as ASCII, most significant first
Octal(n) == IF n < 8 THEN <<48 + n>> ELSE Octal(n \div 8) \o <<48 + (n % 8)>>

\* byte strings "titles", "nucleotides", "qualities", "metadata"
PATH_TITLES == <<116, 105, 116, 108, 101, 115>>
PATH_NUCLEOTIDES == <<110, 117, 99, 108, 101, 111, 116, 105, 100, 101, 115>>
PATH_QUALITIES == <<113, 117, 97, 108, 105, 116, 105, 101, 115>>
PATH_METADATA == <<109, 101, 116, 97, 100, 97, 116, 97>>

\* XZMultiStreamWriter::finish_file: the spool is finished, the header's
\* size is the finished (compressed) spool's stream position n, and the body
\* appended to the archive is what XzDecoder reads from the rewound spool.
finish_file(spool, path, n) ==
  LET finished_spool == XzEncoder(spool)
      reader == XzDecoder(finished_spool)
  IN [path |-> path, size |-> n, body |-> reader.data]

\* XZMultiStreamWriter::write_metadata: the entry "metadata" holding the
\* version marker (no caller in the program)
write_metadata ==
  [path |-> PATH_METADATA, size |-> Len(FILE_VERSION_MULTI), body |-> FILE_VERSION_MULTI]

\* tar::Builder::append: the header (NUL-terminated path and octal size),
\* then every byte the reader yields.
TarEntryBytes(e) == e.path \o <<0>> \o Octal(e.size) \o <<0>> \o e.body

RECURSIVE TarBytes(_)
TarBytes(es) == IF Len(es) = 0 THEN <<>> ELSE TarEntryBytes(es[1]) \o TarBytes(Drop(es, 1))

\* tar::Builder::finish: the end-of-archive marker (zero blocks)
TarFinish == <<0, 0>>

\* ------------------------------------------------------ framing decoder
\* read_until on the decoder: an I/O error when the decompressor fails
\* (bad) before the delimiter is found
dec_read_until(s, bad) ==
  LET ru == read_until(s, 255)
  IN [io |-> bad /\ FirstIndex(s, 255, 1) = 0, buf |-> ru.buf, rest |-> ru.rest]

\* mutant: the marker is only required to be there, not to be equal
check_magic_nonempty(s, bad, version) ==
  LET ru == dec_read_until(s, bad) IN
  IF ru.io THEN [err |-> "IO", rest |-> ru.rest]
  ELSE IF Len(ru.buf) = 0 THEN [err |-> "MissingVersion", rest |-> ru.rest]
  ELSE [err |-> "none", rest |-> ru.rest]

\* mutant: the marker of either model is accepted
check_magic_anyversion(s, bad, version) ==
  LET ru == dec_read_until(s, bad) IN
  IF ru.io THEN [err |-> "IO", rest |-> ru.rest]
  ELSE IF Len(ru.buf) = 0 THEN [err |-> "MissingVersion", rest |-> ru.rest]
  ELSE IF ru.buf # FILE_VERSION_SINGLE /\ ru.buf # FILE_VERSION_MULTI
    THEN [err |-> "MissingVersion", rest |-> ru.rest]
  ELSE [err |-> "none", rest |-> ru.rest]

\* XZSingleFileReader::check_magic / XZMultiStreamReader::check_magic
check_magic(s, bad, version) ==
  LET ru == dec_read_until(s, bad) IN
  IF ru.io THEN [err |-> "IO", rest |-> ru.rest]
  ELSE IF Len(ru.buf) = 0 THEN [err |-> "MissingVersion", rest |-> ru.rest]
  ELSE IF ru.buf # version THEN [err |-> "MissingVersion", rest |-> ru.rest]
  ELSE [err |-> "none", rest |-> ru.rest]

\* read_u8: the record is cleared and filled by read_until; an I/O error
\* leaves in it the bytes read before the error; Ok(false) on nothing read,
\* Ok(true) with the sentinel popped, IncompleteRecord (the last byte
\* popped all the same) when the last byte read is not the sentinel
read_u8(s, bad) ==
  LET ru == dec_read_until(s, bad) IN
  IF ru.io THEN [err |-> "IO", ret |-> FALSE, record |-> ru.buf, rest |-> ru.rest]
  ELSE IF Len(ru.buf) = 0
    THEN [err |-> "none", ret |-> FALSE, record |-> <<>>, rest |-> ru.rest]
  ELSE IF Last(ru.buf) = 255
    THEN [err |-> "none", ret |-> TRUE, record |-> Front(ru.buf), rest |-> ru.rest]
  ELSE [err |-> "IncompleteRecord", ret |-> FALSE, record |-> Front(ru.buf), rest |-> ru.rest]

\* mutant: the bytes of a title are taken as they come, without the check
read_string_unchecked(s, bad, record) ==
  LET u == read_u8(s, bad) IN
  IF u.err # "none" THEN [u EXCEPT !.record = record]
  ELSE u

\* read_string: read_u8 into a buffer of its own; only when that succeeds
\* is the record cleared, and then assigned if the bytes are UTF-8
read_string(s, bad, record) ==
  LET u == read_u8(s, bad) IN
  IF u.err # "none" THEN [u EXCEPT !.record = record]
  ELSE IF ~from_utf8(u.record) THEN [u EXCEPT !.err = "EncodingError", !.record = <<>>]
  ELSE u

\* mutant: a short read is accepted (read instead of read_exact)
read_qualities_short(s, n) ==
  LET k == IF Len(s) >= n THEN n ELSE Len(s)
  IN [err |-> "none", buf |-> Take(s, k), rest |-> Drop(s, k)]

\* the two read_exact calls of read_next: any failure is IncompleteRecord
read_qualities(s, n) ==
  LET x == read_exact(s, n) IN
  [err |-> IF x.ok THEN "none" ELSE "IncompleteRecord", buf |-> x.buf, rest |-> x.rest]

\* read_next fails with error e; a and b are the caller's buffers as the
\* reads made so far have left them, rest the bytes the decoder still holds
\* (those behind the sentinel of a title that is not text; none when the
\* stream ran out or the decompressor failed)
read_fail(e, a, b, rest) == [err |-> e, ret |-> FALSE, r1 |-> a, r2 |-> b, rest |-> rest]

\* read_next after the first quality run: r2.qualities is cleared, resized
\* to r2.letters and filled; then Ok(true)
read_next_q2(q2, a, b) ==
  IF q2.err # "none" THEN read_fail(q2.err, a, [b EXCEPT !.qualities = q2.buf], q2.rest)
  ELSE [err |-> "none", ret |-> TRUE, r1 |-> a, r2 |-> [b EXCEPT !.qualities = q2.buf],
        rest |-> q2.rest]

\* read_next after both sequences: r1.qualities is cleared, resized to
\* r1.letters and filled
read_next_q1(q1, a, b) ==
  IF q1.err # "none" THEN read_fail(q1.err, [a EXCEPT !.qualities = q1.buf], b, q1.rest)
  ELSE read_next_q2(read_qualities(q1.rest, Len(b.letters)),
                    [a EXCEPT !.qualities = q1.buf], b)

\* mutant: the end of the stream before r2.letters counts as a clean end
read_next_l2_clean(l2, bad, a, b) ==
  IF l2.err # "none" THEN read_fail(l2.err, a, [b EXCEPT !.letters = l2.record], l2.rest)
  ELSE IF ~l2.ret
    THEN [err |-> "none", ret |-> FALSE, r1 |-> a,
          r2 |-> [b EXCEPT !.letters = l2.record], rest |-> l2.rest]
  ELSE read_next_q1(read_qualities(l2.rest, Len(a.letters)), a,
                    [b EXCEPT !.letters = l2.record])

\* read_next after r1.letters: read_u8 into r2.letters
read_next_l2(l2, bad, a, b) ==
  IF l2.err # "none" THEN read_fail(l2.err, a, [b EXCEPT !.letters = l2.record], l2.rest)
  ELSE IF ~l2.ret THEN read_fail("IncompleteRecord", a, [b EXCEPT !.letters = l2.record], l2.rest)
  ELSE read_next_q1(read_qualities(l2.rest, Len(a.letters)), a,
                    [b EXCEPT !.letters = l2.record])

\* read_next after r2.title: read_u8 into r1.letters
read_next_l1(l1, bad, a, b) ==
  IF l1.err # "none" THEN read_fail(l1.err, [a EXCEPT !.letters = l1.record], b, l1.rest)
  ELSE IF ~l1.ret THEN read_fail("IncompleteRecord", [a EXCEPT !.letters = l1.record], b, l1.rest)
  ELSE read_next_l2(read_u8(l1.rest, bad), bad, [a EXCEPT !.letters = l1.record], b)

\* mutant: the end of the stream before r2.title counts as a clean end
read_next_t2_clean(t2, bad, a, b) ==
  IF t2.err # "none" THEN read_fail(t2.err, a, [b EXCEPT !.title = t2.record], t2.rest)
  ELSE IF ~t2.ret
    THEN [err |-> "none", ret |-> FALSE, r1 |-> a,
          r2 |-> [b EXCEPT !.title = t2.record], rest |-> t2.rest]
  ELSE read_next_l1(read_u8(t2.rest, bad), bad, a, [b EXCEPT !.title = t2.record])

\* read_next after r1.title: read_string into r2.title
read_next_t2(t2, bad, a, b) ==
  IF t2.err # "none" THEN read_fail(t2.err, a, [b EXCEPT !.title = t2.record], t2.rest)
  ELSE IF ~t2.ret THEN read_fail("IncompleteRecord", a, [b EXCEPT !.title = t2.record], t2.rest)
  ELSE read_next_l1(read_u8(t2.rest, bad), bad, a, [b EXCEPT !.title = t2.record])

\* read_next from its first read, read_string into r1.title: Ok(false) when
\* it finds nothing
read_next_t1(t1, bad, a, b) ==
  IF t1.err # "none" THEN read_fail(t1.err, [a EXCEPT !.title = t1.record], b, t1.rest)
  ELSE IF ~t1.ret
    THEN [err |-> "none", ret |-> FALSE, r1 |-> [a EXCEPT !.title = t1.record],
          r2 |-> b, rest |-> t1.rest]
  ELSE read_next_t2(read_string(t1.rest, bad, b.title), bad,
                    [a EXCEPT !.title = t1.record], b)

\* XZSingleFileReader::read_next / XZMultiStreamReader::read_next
read_next(s, bad, a, b) == read_next_t1(read_string(s, bad, a.title), bad, a, b)

\* ------------------------------------------------------------- inputs
Titles == {<<>>, <<114>>}
Nucleotides == {110, 97, 116, 99, 103}
Bases == {97}
Qualities == {1}

\* title and sub_title of a read: both empty, or "r" and "s"
TitleSubs == {<< <<>>, <<>> >>, << <<114>>, <<115>> >>}

SeqQual ==
  UNION {{<<l, q>> : l \in [1..n -> Bases], q \in [1..n -> Qualities]} : n \in 0..MaxSeqLen}

ReadSet == {FastQRead(ts[1], ts[2], lq[1], lq[2]) : ts \in TitleSubs, lq \in SeqQual}

PairSet == {[r1 |-> a, r2 |-> b] : a, b \in ReadSet}

Inputs == UNION {[1..n -> PairSet] : n \in 0..MaxPairs}

\* inputs of the damage runs: the last pair is arbitrary and a quality byte
\* of it may have any value, the sentinel's included (sub_title is not on
\* the wire); the pairs before it are pairs of two equal reads
QualitiesAny == {1, 255}

SeqQualAny ==
  UNION {{<<l, q>> : l \in [1..n -> Bases], q \in [1..n -> QualitiesAny]} : n \in 0..MaxSeqLen}

ReadSetAny == {FastQRead(t, <<>>, lq[1], lq[2]) : t \in Titles, lq \in SeqQualAny}

PairSetAny == {[r1 |-> a, r2 |-> b] : a, b \in ReadSetAny}

TwinPairs == {[r1 |-> a, r2 |-> a] : a \in ReadSet}

InputsAny ==
  {<<>>} \cup
  UNION {{e \o <<p>> : e \in [1..n -> TwinPairs], p \in PairSetAny} : n \in 0..(MaxPairs - 1)}

\* the pair of two reads "r"/"s" with one base and one quality
StockRead == FastQRead(<<114>>, <<115>>, <<97>>, <<1>>)
StockPair == [r1 |-> StockRead, r2 |-> StockRead]

\* inputs whose last pair is arbitrary and whose pairs before it are all
\* the stock pair
InputsStock ==
  {<<>>} \cup
  UNION {{[i \in 1..n |-> StockPair] \o <<p>> : p \in PairSetAny} : n \in 0..(MaxPairs - 1)}

Models == {"None", "LZMA", "LZMAMulti"}

\* -------------------------------------------------------------- state
VARIABLES
  input,              \* the pairs the source yields, in order
  cmodel,             \* the model option given to compress
  dmodel,             \* the model option given to decompress
  pc,                 \* "compress", "loop", "compressed", "decode", "done"
  srcPos,             \* pairs the source has handed out so far
  encoder,            \* bytes written into the single-file encoder
  title_spool,        \* bytes written into the three spools
  nucleotides_spool,
  qualities_spool,
  entries,            \* entries appended to the tar builder
  artifact,           \* the finished artifact, an xz stream
  stream,             \* decompressed bytes the decoder has not consumed
  corrupt,            \* the decompressor fails once stream is exhausted
  r1, r2,             \* the FastQRead buffers of the running call
  sink,               \* pairs handed to write_next, in order
  result,             \* outcome of decompress: "none" while running
  tamper,             \* what was done to the artifact between the two runs
  reader,             \* the paired source: its kind, its inputs, its positions
  src_ret,            \* outcome of the paired source's last read_next
  arch,               \* entries appended to a PareArchiveEncoder's builder
  arch_finished,      \* the builder has written its end-of-archive marker
  calls,              \* the calls made on the PareArchiveEncoder, with outcomes
  decoder,            \* a PareArchiveDecoder: where it is and its last answer
  tmpdir,             \* its temporary directory: created, deleted, contents
  nucleotides,        \* the vector reverse_complement_nucleotides works on
  original,           \* that vector as it was first
  applications,       \* how many times the function has been applied
  fq_reader,          \* a FastQFileReader: its unread text, its line counter
  seq,                \* the FastQRead buffer its caller passes to read_next
  fq_ret,             \* outcome of the FastQFileReader's last read_next
  fq_last,            \* the unread text and the buffer as that call found them
  fq_writer,          \* a FastQFileWriter: the text written, its line counter
  long                \* compress on long reads, known by their lengths

\* the state of compress and decompress
codecVars == <<input, cmodel, dmodel, pc, srcPos, encoder, title_spool,
               nucleotides_spool, qualities_spool, entries, artifact, stream,
               corrupt, r1, r2, sink, result, tamper>>

\* the state of the paired source, the archive facility, the nucleotide vector
fastqVars == <<fq_reader, seq, fq_ret, fq_last, fq_writer>>
sourceVars == <<reader, src_ret, fastqVars>>
archiveVars == <<arch, arch_finished, calls, decoder, tmpdir>>
letterVars == <<nucleotides, original, applications>>

\* the state of compress on long reads
longVars == <<long>>

vars == <<codecVars, sourceVars, archiveVars, letterVars, longVars>>

NoTamper == [kind |-> "none", rec |-> 0, field |-> "none"]

\* main.rs compress/decompress: Some(LZMAMulti) selects the multi-stream
\* model, Some(LZMA) and None select the single-file model
Selected(model) == IF model = "LZMAMulti" THEN "multi" ELSE "single"

\* no paired source is open
NoReader == [kind |-> "none", streams |-> <<>>, pos |-> <<>>,
             reverse_complement_r2_nucleotides |-> FALSE]

\* no PareArchiveDecoder was asked for, no temporary directory was made
NoDecoder == [state |-> "none", last |-> "none", gets |-> 0]
NoTempDir == [created |-> 0, removed |-> 0, exists |-> FALSE, files |-> <<>>]

\* no FASTQ text is being read or written
FastqIdle ==
  /\ fq_reader = [stream |-> <<>>, line |-> 0]
  /\ seq = DefaultRead
  /\ fq_ret = "none"
  /\ fq_last = [stream |-> <<>>, seq |-> DefaultRead]
  /\ fq_writer = [stream |-> <<>>, line |-> 0, reverse_complement |-> FALSE,
                  panicked |-> FALSE]

\* no paired source is in use
SourceIdle ==
  /\ reader = NoReader
  /\ src_ret = "none"
  /\ FastqIdle

\* the archive facility is not in use
ArchiveIdle ==
  /\ arch = <<>>
  /\ arch_finished = FALSE
  /\ calls = <<>>
  /\ decoder = NoDecoder
  /\ tmpdir = NoTempDir

\* no nucleotide vector is being worked on
LettersIdle ==
  /\ nucleotides = <<>>
  /\ original = <<>>
  /\ applications = 0

\* no long reads are being compressed
LongIdle == long = [source |-> <<>>, pc |-> "idle", pos |-> 0, offered |-> 0, held |-> 0]

\* compress and decompress are not running
CodecIdle ==
  /\ input = <<>>
  /\ cmodel = "None"
  /\ dmodel = "None"
  /\ pc = "idle"
  /\ srcPos = 0
  /\ encoder = <<>>
  /\ title_spool = <<>>
  /\ nucleotides_spool = <<>>
  /\ qualities_spool = <<>>
  /\ entries = <<>>
  /\ artifact = NoArtifact
  /\ stream = <<>>
  /\ corrupt = FALSE
  /\ r1 = DefaultRead
  /\ r2 = DefaultRead
  /\ sink = <<>>
  /\ result = "none"
  /\ tamper = [kind |-> "none", rec |-> 0, field |-> "none"]

Fresh ==
  /\ SourceIdle /\ ArchiveIdle /\ LettersIdle /\ LongIdle
  /\ pc = "compress"
  /\ dmodel = "None"
  /\ srcPos = 0
  /\ encoder = <<>>
  /\ title_spool = <<>>
  /\ nucleotides_spool = <<>>
  /\ qualities_spool = <<>>
  /\ entries = <<>>
  /\ artifact = NoArtifact
  /\ stream = <<>>
  /\ corrupt = FALSE
  /\ r1 = DefaultRead
  /\ r2 = DefaultRead
  /\ sink = <<>>
  /\ result = "none"
  /\ tamper = NoTamper

Init ==
  /\ input \in Inputs
  /\ cmodel \in Models
  /\ Fresh

\* ------------------------------------------------------------ compress
\* XZSingleFileWriter::compress up to the loop: the version marker
SingleBegin ==
  /\ pc = "compress"
  /\ Selected(cmodel) = "single"
  /\ encoder' = encoder \o FILE_VERSION_SINGLE
  /\ pc' = "loop"
  /\ UNCHANGED <<input, cmodel, dmodel, srcPos, title_spool, nucleotides_spool,
                 qualities_spool, entries, artifact, stream, corrupt, r1, r2,
                 sink, result, tamper>>
  /\ UNCHANGED <<sourceVars, archiveVars, letterVars, longVars>>

\* one iteration of the loop: the source yields a pair, its fields are written
SinglePair ==
  /\ pc = "loop"
  /\ Selected(cmodel) = "single"
  /\ srcPos < Len(input)
  /\ srcPos' = srcPos + 1
  /\ r1' = input[srcPos + 1].r1
  /\ r2' = input[srcPos + 1].r2
  /\ encoder' \in BufWriteEach(encoder, single_compress_pair(r1', r2'))
  /\ UNCHANGED <<input, cmodel, dmodel, pc, title_spool, nucleotides_spool,
                 qualities_spool, entries, artifact, stream, corrupt, sink, result, tamper>>
  /\ UNCHANGED <<sourceVars, archiveVars, letterVars, longVars>>

\* the source is exhausted: compress returns and the encoder is finished
SingleEnd ==
  /\ pc = "loop"
  /\ Selected(cmodel) = "single"
  /\ srcPos = Len(input)
  /\ artifact' = XzEncoder(encoder)
  /\ pc' = "compressed"
  /\ UNCHANGED <<input, cmodel, dmodel, srcPos, encoder, title_spool,
                 nucleotides_spool, qualities_spool, entries, stream, corrupt,
                 r1, r2, sink, result, tamper>>
  /\ UNCHANGED <<sourceVars, archiveVars, letterVars, longVars>>

\* XZMultiStreamWriter::compress up to the loop: three empty spools
MultiBegin ==
  /\ pc = "compress"
  /\ Selected(cmodel) = "multi"
  /\ title_spool' = <<>>
  /\ nucleotides_spool' = <<>>
  /\ qualities_spool' = <<>>
  /\ pc' = "loop"
  /\ UNCHANGED <<input, cmodel, dmodel, srcPos, encoder, entries, artifact,
                 stream, corrupt, r1, r2, sink, result, tamper>>
  /\ UNCHANGED <<sourceVars, archiveVars, letterVars, longVars>>

\* one iteration of the loop: the pair's fields go to the three spools, the
\* titles by write! (write_all), the letters and qualities by write
MultiPair ==
  /\ pc = "loop"
  /\ Selected(cmodel) = "multi"
  /\ srcPos < Len(input)
  /\ srcPos' = srcPos + 1
  /\ r1' = input[srcPos + 1].r1
  /\ r2' = input[srcPos + 1].r2
  /\ title_spool' = title_spool \o r1'.title \o NEWLINE \o r2'.title \o NEWLINE
  /\ nucleotides_spool' \in
       XzWriteEach(nucleotides_spool, <<r1'.letters, NEWLINE, r2'.letters, NEWLINE>>, 1)
  /\ qualities_spool' \in XzWriteEach(qualities_spool, <<r1'.qualities, r2'.qualities>>, 1)
  /\ UNCHANGED <<input, cmodel, dmodel, pc, encoder, entries, artifact, stream,
                 corrupt, sink, result, tamper>>
  /\ UNCHANGED <<sourceVars, archiveVars, letterVars, longVars>>

\* the source is exhausted: the three spools are appended, the archive is
\* finished and the outer encoder is finished
MultiEnd ==
  /\ pc = "loop"
  /\ Selected(cmodel) = "multi"
  /\ srcPos = Len(input)
  /\ \E nt \in XzLengths(title_spool), nn \in XzLengths(nucleotides_spool),
        nq \in XzLengths(qualities_spool) :
       entries' = entries \o <<finish_file(title_spool, PATH_TITLES, nt),
                                finish_file(nucleotides_spool, PATH_NUCLEOTIDES, nn),
                                finish_file(qualities_spool, PATH_QUALITIES, nq)>>
  /\ artifact' = XzEncoder(TarBytes(entries') \o TarFinish)
  /\ pc' = "compressed"
  /\ UNCHANGED <<input, cmodel, dmodel, srcPos, encoder, title_spool,
                 nucleotides_spool, qualities_spool, stream, corrupt, r1, r2,
                 sink, result, tamper>>
  /\ UNCHANGED <<sourceVars, archiveVars, letterVars, longVars>>

\* ---------------------------------------------------------- decompress
\* the version marker the selected reader expects
ReaderVersion(model) ==
  IF Selected(model) = "multi" THEN FILE_VERSION_MULTI ELSE FILE_VERSION_SINGLE

\* main.rs decompress selects the reader from the model option alone; the
\* reader's decompress then runs check_magic, which leaves in the decoder
\* what its read_until did not consume, whatever it returns
DecompressBegin(m, bytes, bad) ==
  LET cm == check_magic(bytes, bad, ReaderVersion(m)) IN
  /\ dmodel' = m
  /\ r1' = DefaultRead
  /\ r2' = DefaultRead
  /\ sink' = <<>>
  /\ corrupt' = bad
  /\ stream' = cm.rest
  /\ IF cm.err = "none"
     THEN /\ result' = "none"
          /\ pc' = "decode"
     ELSE /\ result' = cm.err
          /\ pc' = "done"

Decompress ==
  /\ pc = "compressed"
  /\ \E m \in Models :
       LET d == XzDecoder(artifact) IN
       DecompressBegin(m, d.data, ~d.ok)
  /\ UNCHANGED <<input, cmodel, srcPos, encoder, title_spool, nucleotides_spool,
                 qualities_spool, entries, artifact, tamper>>
  /\ UNCHANGED <<sourceVars, archiveVars, letterVars, longVars>>

\* FastQFileWriter::write_next panics on the read: a letter the match of
\* nuclotides_upper (or of reverse_complement_nucleotides) does not know,
\* or, in a build with overflow checks, a quality q with q + 32 above 255
write_next_panics(buf) ==
  \/ \E i \in 1..Len(buf.letters) : buf.letters[i] \notin Nucleotides
  \/ \E i \in 1..Len(buf.qualities) : buf.qualities[i] + 32 > 255

\* mutant: the outcome of write_next is not looked at
decompress_step_unchecked(rn, wn) ==
  /\ r1' = rn.r1
  /\ r2' = rn.r2
  /\ stream' = rn.rest
  /\ IF rn.err # "none"
     THEN /\ result' = rn.err
          /\ pc' = "done"
          /\ sink' = sink
     ELSE IF ~rn.ret
     THEN /\ result' = "Ok"
          /\ pc' = "done"
          /\ sink' = sink
     ELSE /\ sink' = Append(sink, [r1 |-> rn.r1, r2 |-> rn.r2, ok |-> wn = "Ok"])
          /\ IF wn = "panic"
             THEN result' = "Panic" /\ pc' = "done"
             ELSE UNCHANGED <<result, pc>>

\* the loop body of decompress on read_next's outcome rn: an error or
\* Ok(false) ends the call, Ok(true) hands the pair to write_next; wn is
\* what write_next does: "Ok", "Err" (the call ends as FastQError) or
\* "panic" (the process aborts inside write_next, decompress never returns)
decompress_step(rn, wn) ==
  /\ r1' = rn.r1
  /\ r2' = rn.r2
  /\ stream' = rn.rest
  /\ IF rn.err # "none"
     THEN /\ result' = rn.err
          /\ pc' = "done"
          /\ sink' = sink
     ELSE IF ~rn.ret
     THEN /\ result' = "Ok"
          /\ pc' = "done"
          /\ sink' = sink
     ELSE /\ sink' = Append(sink, [r1 |-> rn.r1, r2 |-> rn.r2, ok |-> wn = "Ok"])
          /\ IF wn = "Ok" THEN UNCHANGED <<result, pc>>
             ELSE IF wn = "Err" THEN result' = "FastQError" /\ pc' = "done"
             ELSE result' = "Panic" /\ pc' = "done"

\* one iteration of the decompress loop: read_next, then write_next
DecodeNext ==
  /\ pc = "decode"
  /\ decompress_step(read_next(stream, corrupt, r1, r2), "Ok")
  /\ UNCHANGED <<input, cmodel, dmodel, srcPos, encoder, title_spool,
                 nucleotides_spool, qualities_spool, entries, artifact, corrupt,
                 tamper>>
  /\ UNCHANGED <<sourceVars, archiveVars, letterVars, longVars>>

\* the same iteration when the sink cannot write the pair it is handed
DecodeNextSinkFails ==
  /\ pc = "decode"
  /\ read_next(stream, corrupt, r1, r2).ret
  /\ decompress_step(read_next(stream, corrupt, r1, r2), "Err")
  /\ UNCHANGED <<input, cmodel, dmodel, srcPos, encoder, title_spool,
                 nucleotides_spool, qualities_spool, entries, artifact, corrupt,
                 tamper>>
  /\ UNCHANGED <<sourceVars, archiveVars, letterVars, longVars>>

\* the same iteration when the sink is the program's FASTQ writer (main.rs
\* decompress) and the pair makes it panic
DecodeNextSinkPanics ==
  /\ pc = "decode"
  /\ read_next(stream, corrupt, r1, r2).ret
  /\ \/ write_next_panics(read_next(stream, corrupt, r1, r2).r1)
     \/ write_next_panics(read_next(stream, corrupt, r1, r2).r2)
  /\ decompress_step(read_next(stream, corrupt, r1, r2), "panic")
  /\ UNCHANGED <<input, cmodel, dmodel, srcPos, encoder, title_spool,
                 nucleotides_spool, qualities_spool, entries, artifact, corrupt,
                 tamper>>
  /\ UNCHANGED <<sourceVars, archiveVars, letterVars, longVars>>

\* ------------------------------------------------------------- damage
\* What can happen to a stored artifact between compress and decompress.
Fields == {"title_r1", "title_r2", "sequence_r1", "sequence_r2",
           "qualities_r1", "qualities_r2"}

\* the number of stream bytes each field of a pair occupies, in wire order
FieldLens(p) ==
  <<Len(p.r1.title) + 1, Len(p.r2.title) + 1,
    Len(p.r1.letters) + 1, Len(p.r2.letters) + 1,
    Len(p.r1.qualities), Len(p.r2.qualities)>>

FieldIndex(f) ==
  CASE f = "title_r1" -> 1 [] f = "title_r2" -> 2
    [] f = "sequence_r1" -> 3 [] f = "sequence_r2" -> 4
    [] f = "qualities_r1" -> 5 [] f = "qualities_r2" -> 6

RECURSIVE SumTo(_, _)
SumTo(ls, n) == IF n = 0 THEN 0 ELSE ls[n] + SumTo(ls, n - 1)

PairLen(p) == SumTo(FieldLens(p), 6)

RECURSIVE RecordOffset(_, _)
\* stream bytes before record j: the marker and the records before it
RecordOffset(in, j) ==
  IF j = 1 THEN Len(FILE_VERSION_SINGLE)
  ELSE RecordOffset(in, j - 1) + PairLen(in[j - 1])

\* the stream without the bytes from..from+n-1
RemoveRange(s, from, n) == Take(s, from - 1) \o Drop(s, from - 1 + n)

\* delete one field of one record (a sentinel-terminated field goes with
\* its sentinel) from the stored single-file artifact
TamperDelete ==
  /\ pc = "compressed"
  /\ tamper = NoTamper
  /\ Selected(cmodel) = "single"
  /\ \E j \in 1..Len(input), f \in Fields :
       LET ls == FieldLens(input[j])
           from == RecordOffset(input, j) + SumTo(ls, FieldIndex(f) - 1) + 1
           data == XzDecoder(artifact).data
       IN /\ artifact' = XzEncoder(RemoveRange(data, from, ls[FieldIndex(f)]))
          /\ tamper' = [kind |-> "delete", rec |-> j, field |-> f]
  /\ UNCHANGED <<input, cmodel, dmodel, pc, srcPos, encoder, title_spool,
                 nucleotides_spool, qualities_spool, entries, stream, corrupt,
                 r1, r2, sink, result>>
  /\ UNCHANGED <<sourceVars, archiveVars, letterVars, longVars>>

\* the stored single-file stream is cut after its first k bytes (none, the
\* marker short of its sentinel, or the marker and more; k = its length
\* leaves it whole)
TamperTruncate ==
  /\ pc = "compressed"
  /\ tamper = NoTamper
  /\ Selected(cmodel) = "single"
  /\ \E k \in {0} \cup ((Len(FILE_VERSION_SINGLE) - 1)..Len(XzDecoder(artifact).data)) :
       /\ artifact' = XzEncoder(Take(XzDecoder(artifact).data, k))
       /\ tamper' = [kind |-> "truncate", rec |-> k, field |-> "none"]
  /\ UNCHANGED <<input, cmodel, dmodel, pc, srcPos, encoder, title_spool,
                 nucleotides_spool, qualities_spool, entries, stream, corrupt,
                 r1, r2, sink, result>>
  /\ UNCHANGED <<sourceVars, archiveVars, letterVars, longVars>>

Next ==
  \/ SingleBegin
  \/ SinglePair
  \/ SingleEnd
  \/ MultiBegin
  \/ MultiPair
  \/ MultiEnd
  \/ Decompress
  \/ DecodeNext

Spec == Init /\ [][Next]_vars

\* A stored single-file artifact is damaged before it is read back.
InitTamper ==
  /\ input \in InputsAny
  /\ cmodel = "LZMA"
  /\ Fresh

NextTamper ==
  \/ SingleBegin
  \/ SinglePair
  \/ SingleEnd
  \/ TamperDelete
  \/ Decompress
  \/ DecodeNext
  \/ DecodeNextSinkPanics

SpecTamper == InitTamper /\ [][NextTamper]_vars

\* A stored single-file stream is cut short before it is read back.
NextPrefix ==
  \/ SingleBegin
  \/ SinglePair
  \/ SingleEnd
  \/ TamperTruncate
  \/ Decompress
  \/ DecodeNext
  \/ DecodeNextSinkPanics

SpecPrefix == InitTamper /\ [][NextPrefix]_vars

\* decompress is handed a file that no encoder of this program wrote
MarkerVariants ==
  {FILE_VERSION_SINGLE, FILE_VERSION_MULTI, <<>>, Front(FILE_VERSION_SINGLE),
   Take(FILE_VERSION_SINGLE, 4), [FILE_VERSION_SINGLE EXCEPT ![24] = 50],
   <<97>> \o FILE_VERSION_SINGLE}

TailBytes == {255, 97, 128}

Tails == UNION {[1..n -> TailBytes] : n \in 0..MaxTail}

InitStream ==
  /\ SourceIdle /\ ArchiveIdle /\ LettersIdle /\ LongIdle
  /\ input = <<>>
  /\ cmodel = "None"
  /\ pc = "compressed"
  /\ dmodel = "None"
  /\ srcPos = 0
  /\ encoder = <<>>
  /\ title_spool = <<>>
  /\ nucleotides_spool = <<>>
  /\ qualities_spool = <<>>
  /\ entries = <<>>
  /\ \E m \in MarkerVariants, t \in Tails : artifact = XzEncoder(m \o t)
  /\ stream = <<>>
  /\ corrupt = FALSE
  /\ r1 = DefaultRead
  /\ r2 = DefaultRead
  /\ sink = <<>>
  /\ result = "none"
  /\ tamper = [kind |-> "foreign", rec |-> 0, field |-> "none"]

NextStream ==
  \/ Decompress
  \/ DecodeNext
  \/ DecodeNextSinkPanics

SpecStream == InitStream /\ [][NextStream]_vars

\* decompress is handed the file a: nothing was compressed in this run
Handed(a, kind) ==
  /\ SourceIdle /\ ArchiveIdle /\ LettersIdle /\ LongIdle
  /\ input = <<>>
  /\ cmodel = "None"
  /\ pc = "compressed"
  /\ dmodel = "None"
  /\ srcPos = 0
  /\ encoder = <<>>
  /\ title_spool = <<>>
  /\ nucleotides_spool = <<>>
  /\ qualities_spool = <<>>
  /\ entries = <<>>
  /\ artifact = a
  /\ stream = <<>>
  /\ corrupt = FALSE
  /\ r1 = DefaultRead
  /\ r2 = DefaultRead
  /\ sink = <<>>
  /\ result = "none"
  /\ tamper = [kind |-> kind, rec |-> 0, field |-> "none"]

\* The file's compressed bytes are damaged.  What a damaged xz stream is to
\* its reader: some bytes come out of the decompressor (stored ones, changed
\* ones, ones that were never stored), and then the read that asks for more
\* gets an error.  The bytes that came out are any stream.
InitDamaged == \E m \in MarkerVariants, t \in Tails : Handed(XzDamaged(m \o t), "corrupt")

SpecCorrupt == InitDamaged /\ [][NextStream]_vars

\* The sink may accept a pair, fail on it or panic on it, and the file is
\* one the single-file writer has just made, or any file, whole or damaged:
\* what stands for the marker, whole records, any bytes after them.
NextSink ==
  \/ SingleBegin
  \/ SinglePair
  \/ SingleEnd
  \/ Decompress
  \/ DecodeNext
  \/ DecodeNextSinkFails
  \/ DecodeNextSinkPanics

SinkMarkers == {FILE_VERSION_SINGLE, FILE_VERSION_MULTI, Front(FILE_VERSION_SINGLE)}

\* the pairs to compress come from a FASTQ source: a quality is a printable
\* character's code minus 32, never the sentinel's value
InitSink ==
  \/ /\ input \in InputsStock
     /\ \A i \in 1..Len(input) : \A r \in {input[i].r1, input[i].r2} :
          \A j \in 1..Len(r.qualities) : r.qualities[j] < 95
     /\ cmodel = "LZMA"
     /\ Fresh
  \/ \E v \in SinkMarkers, n \in 0..(MaxPairs - 1), t \in Tails :
       LET y == v \o Framed([i \in 1..n |-> StockPair]) \o t IN
       \/ Handed(XzEncoder(y), "foreign")
       \/ Handed(XzDamaged(y), "corrupt")

SpecSink == InitSink /\ [][NextSink]_vars

TypeOK ==
  /\ pc \in {"idle", "compress", "loop", "compressed", "decode", "done"}
  /\ result \in {"none", "Ok", "IO", "MissingVersion", "IncompleteRecord", "EncodingError",
                 "FastQError", "Panic"}
  /\ src_ret \in {"none", "true", "false", "MissingPairedRead"}
  /\ fq_ret \in {"none", "true", "false", "NoTitleLine", "FastATitleLine",
                 "IncompleteRecord", "InvalidNucleotideLetter", "NoDescriptionLine",
                 "InvalidQualityLetter", "MismatchedSequenceLength"}
  /\ decoder.state \in {"none", "open", "failed", "dropped"}
  /\ applications \in 0..MaxApplications
  /\ srcPos \in 0..Len(input)

\* ------------------------------------------------- reverse complement
\* mutant: g is left as it is
complement_typo(n) ==
  CASE n = 110 -> 110
    [] n = 97 -> 116
    [] n = 116 -> 97
    [] n = 99 -> 103
    [] n = 103 -> 103

\* the match of reverse_complement_nucleotides (any other byte panics)
complement(n) ==
  CASE n = 110 -> 110
    [] n = 97 -> 116
    [] n = 116 -> 97
    [] n = 99 -> 103
    [] n = 103 -> 99

\* Vec::reverse
reverse(v) == [i \in 1..Len(v) |-> v[Len(v) + 1 - i]]

\* mutant: the complement without the reversal
reverse_complement_nucleotides_unreversed(v) == [i \in 1..Len(v) |-> complement(v[i])]

\* reverse_complement_nucleotides: reverse in place, then map every element
reverse_complement_nucleotides(v) ==
  LET reversed == reverse(v) IN [i \in 1..Len(reversed) |-> complement(reversed[i])]

\* vectors over the alphabet n, a, t, c, g
LetterSeqs == UNION {[1..n -> Nucleotides] : n \in 0..MaxLetters}

InitLetters ==
  /\ CodecIdle /\ SourceIdle /\ ArchiveIdle /\ LongIdle
  /\ nucleotides \in LetterSeqs
  /\ original = nucleotides
  /\ applications = 0

\* one call of reverse_complement_nucleotides on the vector
ReverseComplement ==
  /\ applications < MaxApplications
  /\ nucleotides' = reverse_complement_nucleotides(nucleotides)
  /\ applications' = applications + 1
  /\ UNCHANGED original
  /\ UNCHANGED <<codecVars, sourceVars, archiveVars, longVars>>

NextLetters == ReverseComplement

SpecLetters == InitLetters /\ [][NextLetters]_vars

\* ------------------------------------------------------- paired source
\* FastQFileReaderTrait::read_next on an input of records: the next record,
\* or Ok(false) when none is left
file_read_next(records, pos) ==
  IF pos < Len(records)
  THEN [ret |-> TRUE, buf |-> records[pos + 1], pos |-> pos + 1]
  ELSE [ret |-> FALSE, buf |-> DefaultRead, pos |-> pos]

\* FastQRead::reverse_complement_nucleotides
read_reverse_complement(r) == [r EXCEPT !.letters = reverse_complement_nucleotides(@)]

\* the records a FASTQ input holds
FileReads ==
  {FastQRead(<<>>, <<>>, <<>>, <<>>), FastQRead(<<114>>, <<115>>, <<97, 99>>, <<1, 2>>)}

FileSeqs(n) == UNION {[1..k -> FileReads] : k \in 0..n}

\* an interleaved reader over one input, a paired reader over two
Readers ==
  {[kind |-> "interleaved", streams |-> <<f>>, pos |-> <<0>>,
    reverse_complement_r2_nucleotides |-> rc] :
      f \in FileSeqs(2 * MaxRecords - 1), rc \in BOOLEAN}
  \cup
  {[kind |-> "paired", streams |-> <<f, g>>, pos |-> <<0, 0>>,
    reverse_complement_r2_nucleotides |-> rc] :
      f \in FileSeqs(MaxRecords), g \in FileSeqs(MaxRecords), rc \in BOOLEAN}

InitSource ==
  /\ CodecIdle /\ ArchiveIdle /\ LettersIdle /\ LongIdle
  /\ reader \in Readers
  /\ src_ret = "none"
  /\ FastqIdle

\* read_next of both paired readers once the first read is in buf_r1: the
\* second read comes from input i at position p
read_next_r2(first, i, p) ==
  LET second == file_read_next(reader.streams[i], p) IN
  /\ r1' = first.buf
  /\ IF ~second.ret
     THEN /\ src_ret' = "MissingPairedRead"
          /\ r2' = r2
     ELSE /\ src_ret' = "true"
          /\ r2' = IF reader.reverse_complement_r2_nucleotides
                   THEN read_reverse_complement(second.buf)
                   ELSE second.buf
  /\ reader' = [reader EXCEPT !.pos = IF i = 1 THEN <<second.pos>> ELSE <<first.pos, second.pos>>]

\* FastQInterleavedFileReader::read_next: both reads from the one input
InterleavedReadNext ==
  /\ reader.kind = "interleaved"
  /\ src_ret \in {"none", "true"}
  /\ LET first == file_read_next(reader.streams[1], reader.pos[1]) IN
       IF ~first.ret
       THEN /\ src_ret' = "false"
            /\ UNCHANGED <<reader, r1, r2>>
       ELSE read_next_r2(first, 1, first.pos)
  /\ UNCHANGED <<input, cmodel, dmodel, pc, srcPos, encoder, title_spool,
                 nucleotides_spool, qualities_spool, entries, artifact, stream,
                 corrupt, sink, result, tamper>>
  /\ UNCHANGED <<fastqVars, archiveVars, letterVars, longVars>>

\* FastQPairedFilesReader::read_next: Ok(false) as soon as r1_reader has
\* nothing, r2_reader is only asked after r1_reader gave a read
PairedReadNext ==
  /\ reader.kind = "paired"
  /\ src_ret \in {"none", "true"}
  /\ LET first == file_read_next(reader.streams[1], reader.pos[1]) IN
       IF ~first.ret
       THEN /\ src_ret' = "false"
            /\ UNCHANGED <<reader, r1, r2>>
       ELSE read_next_r2(first, 2, reader.pos[2])
  /\ UNCHANGED <<input, cmodel, dmodel, pc, srcPos, encoder, title_spool,
                 nucleotides_spool, qualities_spool, entries, artifact, stream,
                 corrupt, sink, result, tamper>>
  /\ UNCHANGED <<fastqVars, archiveVars, letterVars, longVars>>

NextSource ==
  \/ InterleavedReadNext
  \/ PairedReadNext

SpecSource == InitSource /\ [][NextSource]_vars

RECURSIVE source_pairs(_)
\* the pairs the paired source rd yields, read_next after read_next, until
\* it returns Ok(false) (or fails)
source_pairs(rd) ==
  LET i2 == Len(rd.streams)
      first == file_read_next(rd.streams[1], rd.pos[1])
      second == file_read_next(rd.streams[i2], IF i2 = 1 THEN first.pos ELSE rd.pos[2])
  IN IF ~first.ret \/ ~second.ret THEN <<>>
     ELSE <<[r1 |-> first.buf,
             r2 |-> IF rd.reverse_complement_r2_nucleotides
                    THEN read_reverse_complement(second.buf)
                    ELSE second.buf]>>
          \o source_pairs([rd EXCEPT !.pos = IF i2 = 1 THEN <<second.pos>>
                                             ELSE <<first.pos, second.pos>>])

\* main.rs compress: a paired source with every read paired, held open
\* while the pairs it yields are compressed and read back
InitPipeline ==
  /\ reader \in {rd \in Readers :
                   /\ rd.kind = "interleaved" => Len(rd.streams[1]) % 2 = 0
                   /\ rd.kind = "paired" => Len(rd.streams[1]) = Len(rd.streams[2])}
  /\ src_ret = "none"
  /\ FastqIdle /\ ArchiveIdle /\ LettersIdle /\ LongIdle
  /\ input = source_pairs(reader)
  /\ cmodel \in Models
  /\ pc = "compress"
  /\ dmodel = "None"
  /\ srcPos = 0
  /\ encoder = <<>>
  /\ title_spool = <<>>
  /\ nucleotides_spool = <<>>
  /\ qualities_spool = <<>>
  /\ entries = <<>>
  /\ artifact = NoArtifact
  /\ stream = <<>>
  /\ corrupt = FALSE
  /\ r1 = DefaultRead
  /\ r2 = DefaultRead
  /\ sink = <<>>
  /\ result = "none"
  /\ tamper = NoTamper

SpecPipeline == InitPipeline /\ [][Next]_vars

\* ----------------------------------------------------------- FASTQ text
\* BufRead::read_line: the bytes up to and including the next newline, or
\* all that is left; it APPENDS them to the String it is given.  (The texts
\* here are ASCII, so its UTF-8 check always passes.)
read_line(s) == read_until(s, 10)

RECURSIVE trim_end(_)
\* str::trim_end: without the trailing white space (tab, LF, VT, FF, CR,
\* space among the ASCII bytes)
trim_end(s) ==
  IF Len(s) > 0 /\ Last(s) \in {9, 10, 11, 12, 13, 32} THEN trim_end(Front(s)) ELSE s

\* nuc_string_to_vec: every letter folded to its lower-case code, an error
\* on any character outside NnAaTtCcGg
nuc_string_to_vec(letters) ==
  LET code(n) == CASE n \in {110, 78} -> 110
                   [] n \in {97, 65} -> 97
                   [] n \in {116, 84} -> 116
                   [] n \in {99, 67} -> 99
                   [] n \in {103, 71} -> 103
                   [] OTHER -> 0
  IN IF \E i \in 1..Len(letters) : code(letters[i]) = 0
     THEN [ok |-> FALSE, ret |-> <<>>]
     ELSE [ok |-> TRUE, ret |-> [i \in 1..Len(letters) |-> code(letters[i])]]

\* u8::is_ascii_graphic: '!' ..= '~'
is_ascii_graphic(c) == c \in 33..126

\* read_next returns early with error e: the buffer is not written, the
\* reader stands after the last line it read
fastq_err(e, buf, rest) == [ret |-> e, buf |-> buf, rest |-> rest, lines |-> 0]

\* mutant: the lengths of the two lines are not compared
fastq_quality_unchecked(ql, title, letters, nucleotides_line, sub_title, buf) ==
  IF Len(ql.buf) = 0 THEN fastq_err("IncompleteRecord", buf, ql.rest)
  ELSE IF \E i \in 1..Len(trim_end(ql.buf)) : ~is_ascii_graphic(trim_end(ql.buf)[i])
    THEN fastq_err("InvalidQualityLetter", buf, ql.rest)
  ELSE [ret |-> "true",
        buf |-> FastQRead(title, sub_title, letters,
                          [i \in 1..Len(trim_end(ql.buf)) |-> trim_end(ql.buf)[i] - 32]),
        rest |-> ql.rest, lines |-> 4]

\* read_next from the quality line ql on: trimmed, every byte graphic, as
\* long as the trimmed sequence line, each byte minus 32; then *buf is set
fastq_quality(ql, title, letters, nucleotides_line, sub_title, buf) ==
  IF Len(ql.buf) = 0 THEN fastq_err("IncompleteRecord", buf, ql.rest)
  ELSE IF \E i \in 1..Len(trim_end(ql.buf)) : ~is_ascii_graphic(trim_end(ql.buf)[i])
    THEN fastq_err("InvalidQualityLetter", buf, ql.rest)
  ELSE IF Len(nucleotides_line) # Len(trim_end(ql.buf))
    THEN fastq_err("MismatchedSequenceLength", buf, ql.rest)
  ELSE [ret |-> "true",
        buf |-> FastQRead(title, sub_title, letters,
                          [i \in 1..Len(trim_end(ql.buf)) |-> trim_end(ql.buf)[i] - 32]),
        rest |-> ql.rest, lines |-> 4]

\* read_next from the '+' line sl on
fastq_sub_title(sl, title, letters, nucleotides_line, buf) ==
  IF Len(sl.buf) = 0 THEN fastq_err("IncompleteRecord", buf, sl.rest)
  ELSE IF sl.buf[1] # 43 THEN fastq_err("NoDescriptionLine", buf, sl.rest)
  ELSE fastq_quality(read_line(sl.rest), title, letters, nucleotides_line,
                     trim_end(Drop(sl.buf, 1)), buf)

\* read_next from the sequence line nl on
fastq_nucleotides(nl, title, buf) ==
  IF Len(nl.buf) = 0 THEN fastq_err("IncompleteRecord", buf, nl.rest)
  ELSE IF ~nuc_string_to_vec(trim_end(nl.buf)).ok
    THEN fastq_err("InvalidNucleotideLetter", buf, nl.rest)
  ELSE fastq_sub_title(read_line(nl.rest), title,
                       nuc_string_to_vec(trim_end(nl.buf)).ret, trim_end(nl.buf), buf)

\* read_next after its loop, on the String title the loop has filled
fastq_title(title, rest, buf) ==
  IF title[1] # 64
  THEN fastq_err(IF title[1] = 62 THEN "FastATitleLine" ELSE "NoTitleLine", buf, rest)
  ELSE fastq_nucleotides(read_line(rest), trim_end(Drop(title, 1)), buf)

RECURSIVE fastq_loop(_, _, _)
\* the loop of read_next: read_line into title until title, trimmed, is not
\* empty; Ok(false) when the text ends first.  title is not cleared between
\* two turns, so it keeps the blank lines read before
fastq_loop(title, s, buf) ==
  IF Len(read_line(s).buf) = 0
  THEN [ret |-> "false", buf |-> buf, rest |-> read_line(s).rest, lines |-> 0]
  ELSE IF Len(trim_end(title \o read_line(s).buf)) # 0
    THEN fastq_title(title \o read_line(s).buf, read_line(s).rest, buf)
  ELSE fastq_loop(title \o read_line(s).buf, read_line(s).rest, buf)

\* FastQFileReader::read_next on the unread text s with the caller's buf
FastQFileReader_read_next(s, buf) == fastq_loop(<<>>, s, buf)

\* nuclotides_upper (any other byte panics)
nuclotides_upper(v) ==
  [i \in 1..Len(v) |-> CASE v[i] = 110 -> 78
                         [] v[i] = 97 -> 65
                         [] v[i] = 116 -> 84
                         [] v[i] = 99 -> 67
                         [] v[i] = 103 -> 71]

\* mutant: the qualities are written with the offset 33
FastQFileWriter_write_next_offset33(buf, reverse_complement) ==
  LET head == <<64>> \o buf.title \o <<10>>
      body == head
                \o nuclotides_upper(IF reverse_complement
                                    THEN reverse_complement_nucleotides(buf.letters)
                                    ELSE buf.letters) \o <<10>>
                \o <<43>> \o buf.sub_title \o <<10>>
      quals == [i \in 1..Len(buf.qualities) |-> (buf.qualities[i] + 33) % 256]
  IN IF \E i \in 1..Len(buf.letters) : buf.letters[i] \notin Nucleotides
     THEN {[stream |-> head, panic |-> TRUE]}
     ELSE IF \E i \in 1..Len(buf.qualities) : buf.qualities[i] + 33 > 255
     THEN {[stream |-> body, panic |-> TRUE],
           [stream |-> body \o quals \o <<10>>, panic |-> FALSE]}
     ELSE {[stream |-> body \o quals \o <<10>>, panic |-> FALSE]}

\* FastQFileWriter::write_next: what it has written when it ends, and how it
\* ends.  It writes the title line, then panics on a letter that
\* reverse_complement_nucleotides or nuclotides_upper does not know; it
\* writes the sequence line and the '+' line, then computes q + 32 in u8: on
\* a quality above 223 a build with overflow checks panics there, a build
\* without them wraps and writes the line.  (A read the reader produced
\* has known letters and q <= 94.)
FastQFileWriter_write_next(buf, reverse_complement) ==
  LET head == <<64>> \o buf.title \o <<10>>
      body == head
                \o nuclotides_upper(IF reverse_complement
                                    THEN reverse_complement_nucleotides(buf.letters)
                                    ELSE buf.letters) \o <<10>>
                \o <<43>> \o buf.sub_title \o <<10>>
      quals == [i \in 1..Len(buf.qualities) |-> (buf.qualities[i] + 32) % 256]
  IN IF \E i \in 1..Len(buf.letters) : buf.letters[i] \notin Nucleotides
     THEN {[stream |-> head, panic |-> TRUE]}
     ELSE IF \E i \in 1..Len(buf.qualities) : buf.qualities[i] + 32 > 255
     THEN {[stream |-> body, panic |-> TRUE],
           [stream |-> body \o quals \o <<10>>, panic |-> FALSE]}
     ELSE {[stream |-> body \o quals \o <<10>>, panic |-> FALSE]}

\* the lines a text is made of: "", " ", "@r", ">r", "AC", "+s", " !"
Lines == {<<>>, <<32>>, <<64, 114>>, <<62, 114>>, <<65, 67>>, <<43, 115>>, <<32, 33>>}

RECURSIVE JoinLines(_)
\* every line followed by a newline
JoinLines(ls) == IF Len(ls) = 0 THEN <<>> ELSE ls[1] \o <<10>> \o JoinLines(Drop(ls, 1))

\* the text of lines ls; the last line may lack its newline
Text(ls, newline) == IF newline THEN JoinLines(ls) ELSE Front(JoinLines(ls))

\* a reader over a text of up to MaxLines lines, a fresh writer, a buffer
\* that holds an earlier read
InitFastq ==
  /\ CodecIdle /\ ArchiveIdle /\ LettersIdle /\ LongIdle
  /\ reader = NoReader
  /\ src_ret = "none"
  /\ \E n \in 0..MaxLines : \E ls \in [1..n -> Lines], newline \in BOOLEAN :
       fq_reader = [stream |-> Text(ls, newline), line |-> 0]
  /\ seq = FastQRead(<<111>>, <<>>, <<97>>, <<1>>)
  /\ fq_ret = "none"
  /\ fq_last = [stream |-> <<>>, seq |-> DefaultRead]
  /\ fq_writer = [stream |-> <<>>, line |-> 0, reverse_complement |-> FALSE,
                  panicked |-> FALSE]

\* one call reader.read_next(&mut seq); an error ends the reading (`?`)
FastQReadNext ==
  /\ fq_ret \in {"none", "true"}
  /\ ~fq_writer.panicked
  /\ LET rn == FastQFileReader_read_next(fq_reader.stream, seq) IN
       /\ fq_ret' = rn.ret
       /\ seq' = rn.buf
       /\ fq_reader' = [stream |-> rn.rest, line |-> fq_reader.line + rn.lines]
  /\ fq_last' = [stream |-> fq_reader.stream, seq |-> seq]
  /\ UNCHANGED <<fq_writer, reader, src_ret>>
  /\ UNCHANGED <<codecVars, archiveVars, letterVars, longVars>>

\* one call writer.write_next(seq, reverse_complement) on the read the
\* reader has just returned
FastQWriteNext ==
  /\ fq_ret = "true"
  /\ ~fq_writer.panicked
  /\ fq_writer.line < fq_reader.line
  /\ \E rc \in BOOLEAN : \E w \in FastQFileWriter_write_next(seq, rc) :
       fq_writer' = [stream |-> fq_writer.stream \o w.stream,
                     line |-> IF w.panic THEN fq_writer.line ELSE fq_writer.line + 4,
                     reverse_complement |-> rc,
                     panicked |-> w.panic]
  /\ UNCHANGED <<fq_reader, seq, fq_ret, fq_last, reader, src_ret>>
  /\ UNCHANGED <<codecVars, archiveVars, letterVars, longVars>>

NextFastq ==
  \/ FastQReadNext
  \/ FastQWriteNext

SpecFastq == InitFastq /\ [][NextFastq]_vars

\* Every way a FastQRead comes into being: read from a text, or decoded
\* from a stream by either reader.
InitReads == InitFastq \/ InitStream

NextReads ==
  \/ FastQReadNext
  \/ FastQWriteNext
  \/ Decompress
  \/ DecodeNext

SpecReads == InitReads /\ [][NextReads]_vars

\* ------------------------------------------- archive container facility
\* an int32 in little-endian byte order
LE32(n) == <<n % 256, (n \div 256) % 256, (n \div 65536) % 256, (n \div 16777216) % 256>>

\* bson Document::to_writer: the total length, the elements, a closing 0
to_writer(elements) == LE32(Len(elements) + 5) \o elements \o <<0>>

\* bson Document::from_reader accepts bytes of that shape
from_reader(b) == Len(b) >= 5 /\ Take(b, 4) = LE32(Len(b)) /\ Last(b) = 0

\* PareArchiveEncoder::write_stream: the header's size is the source's end
\* offset, the source is rewound, and the builder copies what it then yields
write_stream(source, path) ==
  LET at_end == [source EXCEPT !.pos = Len(source.data)]
      rewound == [at_end EXCEPT !.pos = 0]
  IN [path |-> path, size |-> at_end.pos, body |-> Drop(rewound.data, rewound.pos)]

\* PareArchiveEncoder::write_metadata: the document's bytes in a Cursor
encoder_write_metadata(metadata) ==
  write_stream([data |-> to_writer(metadata), pos |-> 0], PATH_METADATA)

\* PareArchiveEncoder::write_xz_spool: the finished spool, a file of n
\* bytes positioned at its end
write_xz_spool(spool, path, n) ==
  LET finished_spool == [data |-> XzBytes(n), pos |-> n]
  IN write_stream(finished_spool, path)

\* what callers hand to the encoder; a Read + Seek source is its bytes and
\* its stream position
SourceBytes == {<<>>, <<7>>}
Sources == {[data |-> d, pos |-> p] : d \in SourceBytes, p \in 0..1}
             \ {[data |-> <<>>, pos |-> 1]}
Paths == {PATH_TITLES, PATH_QUALITIES}
Documents == {<<>>, <<8, 109, 0, 1>>}

\* tar::Builder::append through one of the three writing calls: the builder
\* does not look at its finished flag
ArchWrite(op, e) ==
  /\ decoder.state = "none"
  /\ Len(calls) < MaxCalls
  /\ arch' = Append(arch, e)
  /\ calls' = Append(calls, [op |-> op, late |-> arch_finished, ret |-> "Ok",
                              appended |-> TRUE])
  /\ UNCHANGED <<arch_finished, decoder, tmpdir>>
  /\ UNCHANGED <<codecVars, sourceVars, letterVars, longVars>>

WriteStream == \E source \in Sources, path \in Paths : ArchWrite("write_stream", write_stream(source, path))

WriteMetadata == \E metadata \in Documents : ArchWrite("write_metadata", encoder_write_metadata(metadata))

WriteXzSpool ==
  \E spool \in SourceBytes, path \in Paths : \E n \in XzLengths(spool) :
    ArchWrite("write_xz_spool", write_xz_spool(spool, path, n))

\* the end-of-archive marker read as a header: no name, size 0
EndOfArchive == [path |-> <<>>, size |-> 0, body |-> <<>>]

\* PareArchiveEncoder::finish: tar::Builder::finish writes the end-of-archive
\* marker once and is a no-op afterwards
Finish ==
  /\ decoder.state = "none"
  /\ Len(calls) < MaxCalls
  /\ arch_finished' = TRUE
  /\ arch' = IF arch_finished THEN arch ELSE Append(arch, EndOfArchive)
  /\ calls' = Append(calls, [op |-> "finish", late |-> arch_finished, ret |-> "Ok",
                              appended |-> FALSE])
  /\ UNCHANGED <<decoder, tmpdir>>
  /\ UNCHANGED <<codecVars, sourceVars, letterVars, longVars>>

\* ---------------------------------------------------- archive decoder
\* tempfile::tempdir(): a directory that exists and is empty
tempdir(dir) == [dir EXCEPT !.created = @ + 1, !.exists = TRUE, !.files = <<>>]

\* mutant: the directory is kept (TempDir::into_path) instead of deleted
TempDir_keep(dir) == dir

\* TempDir's Drop: the directory and everything in it is deleted
TempDir_drop(dir) == [dir EXCEPT !.removed = @ + 1, !.exists = FALSE, !.files = <<>>]

\* the entries an archive reader meets before the end-of-archive marker
RECURSIVE BeforeEnd(_)
BeforeEnd(items) ==
  IF Len(items) = 0 \/ items[1].path = <<>> THEN <<>>
  ELSE <<items[1]>> \o BeforeEnd(Drop(items, 1))

\* tar::Archive::unpack succeeds when every entry has the bytes its header
\* declares
unpack_ok(items) == \A i \in 1..Len(BeforeEnd(items)) : items[i].size = Len(items[i].body)

\* an archive whose entry declares more bytes than follow
Malformed == <<[path |-> PATH_TITLES, size |-> 8, body |-> <<>>]>>

\* the file of that name in the directory: the bytes of the last entry
\* extracted under it
Extracted(files, path) == {i \in 1..Len(files) : files[i].path = path}
FileBytes(files, path) ==
  files[CHOOSE i \in Extracted(files, path) : \A j \in Extracted(files, path) : j <= i].body

\* PareArchiveDecoder::new: tempdir()?, then unpack()? with the directory
\* dropped on the early return, else the decoder owns the directory
DecoderNew ==
  /\ decoder.state = "none"
  /\ Len(calls) > 0
  /\ \E made \in BOOLEAN, source \in {arch, Malformed} :
       IF ~made
       THEN /\ decoder' = [decoder EXCEPT !.state = "failed", !.last = "IO"]
            /\ tmpdir' = tmpdir
       ELSE IF ~unpack_ok(source)
       THEN /\ decoder' = [decoder EXCEPT !.state = "failed", !.last = "IO"]
            /\ tmpdir' = TempDir_drop(tempdir(tmpdir))
       ELSE /\ decoder' = [decoder EXCEPT !.state = "open", !.last = "Ok"]
            /\ tmpdir' = [tempdir(tmpdir) EXCEPT !.files = BeforeEnd(source)]
  /\ UNCHANGED <<arch, arch_finished, calls>>
  /\ UNCHANGED <<codecVars, sourceVars, letterVars, longVars>>

\* PareArchiveDecoder::get_stream / get_xz_stream: File::open of the name
get_stream(files, path) == IF Extracted(files, path) = {} THEN "IO" ELSE "Ok"

\* PareArchiveDecoder::get_metadata: fs::read, then Document::from_reader
get_metadata(files) ==
  IF Extracted(files, PATH_METADATA) = {} THEN "IO"
  ELSE IF ~from_reader(FileBytes(files, PATH_METADATA)) THEN "MetadataError"
  ELSE "Ok"

\* one call of get_stream, get_xz_stream or get_metadata on an open decoder
DecoderGet ==
  /\ decoder.state = "open"
  /\ decoder.gets < MaxGets
  /\ \E ret \in {get_stream(tmpdir.files, path) : path \in Paths \cup {PATH_NUCLEOTIDES}}
               \cup {get_metadata(tmpdir.files)} :
       decoder' = [decoder EXCEPT !.last = ret, !.gets = @ + 1]
  /\ UNCHANGED <<arch, arch_finished, calls, tmpdir>>
  /\ UNCHANGED <<codecVars, sourceVars, letterVars, longVars>>

\* the decoder goes out of scope: its TempDir field is dropped
DecoderDrop ==
  /\ decoder.state = "open"
  /\ decoder' = [decoder EXCEPT !.state = "dropped"]
  /\ tmpdir' = TempDir_drop(tmpdir)
  /\ UNCHANGED <<arch, arch_finished, calls>>
  /\ UNCHANGED <<codecVars, sourceVars, letterVars, longVars>>

InitArchive == CodecIdle /\ SourceIdle /\ ArchiveIdle /\ LettersIdle /\ LongIdle

NextArchive ==
  \/ WriteStream
  \/ WriteMetadata
  \/ WriteXzSpool
  \/ Finish
  \/ DecoderNew
  \/ DecoderGet
  \/ DecoderDrop

SpecArchive == InitArchive /\ [][NextArchive]_vars

\* ----------------------------------------------------------- long reads
\* XZSingleFileWriter::compress on reads too long to spell out byte by byte.
\* A read is known by the lengths of its fields (its letters are bases, its
\* qualities as many), the encoder by the bytes it was offered and the bytes
\* it holds.
LengthRead(t, l) == [title |-> t, letters |-> l, qualities |-> l]

\* the longest read that, alone in a pair with empty titles and an empty
\* companion, still fits the encoder's window with its qualities
LongLen == (XzWindow(9) - Len(FILE_VERSION_SINGLE) - 4) \div 2

ShortReads == {LengthRead(t, l) : t \in {0, 1}, l \in {0, 1}}
LongReads == {LengthRead(t, l) : t \in {0, 1}, l \in {LongLen, LongLen + 1}}

\* sources of pairs of short reads whose last pair holds one long read
LongInputs ==
  UNION {{e \o <<p>> : e \in [1..n -> {[r1 |-> a, r2 |-> b] : a, b \in ShortReads}],
                       p \in {[r1 |-> a, r2 |-> b] : a \in LongReads, b \in ShortReads}
                             \cup {[r1 |-> a, r2 |-> b] : a \in ShortReads, b \in LongReads}}
           : n \in 0..(MaxPairs - 1)}

\* the lengths of the buffers single_compress_pair hands to encoder.write
single_compress_lens(a, b) ==
  <<a.title, 1, b.title, 1, a.letters, 1, b.letters, 1, a.qualities, b.qualities>>

\* long.source: the pairs the source yields, by field lengths; long.pc:
\* where compress is; long.pos: pairs handed out; long.offered: bytes
\* compress has passed to encoder.write; long.held: bytes the encoder took
InitLong ==
  /\ CodecIdle /\ SourceIdle /\ ArchiveIdle /\ LettersIdle
  /\ \E in \in LongInputs :
       long = [source |-> in, pc |-> "compress", pos |-> 0, offered |-> 0, held |-> 0]

\* compress up to the loop: the version marker
LongBegin ==
  /\ long.pc = "compress"
  /\ \E h \in BufTakenEach(long.held, <<Len(FILE_VERSION_SINGLE)>>) :
       long' = [long EXCEPT !.pc = "loop",
                            !.offered = @ + Len(FILE_VERSION_SINGLE),
                            !.held = h]
  /\ UNCHANGED <<codecVars, sourceVars, archiveVars, letterVars>>

\* one iteration of the loop: every write returns Ok, whatever it took
LongPair ==
  /\ long.pc = "loop"
  /\ long.pos < Len(long.source)
  /\ LET p == long.source[long.pos + 1]
         lens == single_compress_lens(p.r1, p.r2)
     IN \E h \in BufTakenEach(long.held, lens) :
          long' = [long EXCEPT !.pos = @ + 1,
                               !.offered = @ + SumTo(lens, Len(lens)),
                               !.held = h]
  /\ UNCHANGED <<codecVars, sourceVars, archiveVars, letterVars>>

\* the source is exhausted: compress returns Ok
LongEnd ==
  /\ long.pc = "loop"
  /\ long.pos = Len(long.source)
  /\ long' = [long EXCEPT !.pc = "done"]
  /\ UNCHANGED <<codecVars, sourceVars, archiveVars, letterVars>>

NextLong ==
  \/ LongBegin
  \/ LongPair
  \/ LongEnd

SpecLong == InitLong /\ [][NextLong]_vars

\* ============================================================== claims
\* the fields the wire formats carry
Core(r) == [title |-> r.title, letters |-> r.letters, qualities |-> r.qualities]
SamePair(x, y) == Core(x.r1) = Core(y.r1) /\ Core(x.r2) = Core(y.r2)

\* the first n pairs the sink received are the first n pairs of the input
Delivered(n) ==
  /\ n <= Len(sink)
  /\ n <= Len(input)
  /\ \A i \in 1..n : SamePair(sink[i], input[i])

RoundTrip == result = "Ok" /\ Len(sink) = Len(input) /\ Delivered(Len(input))

Decoding == pc \in {"decode", "done"}
Untouched == tamper = NoTamper

\* C1: the single-file reader gives back the pairs the single-file writer
\* was given, whatever their length.  For that the stream it decodes must
\* be the marker and the records of those pairs: when compress has returned,
\* the encoder holds every byte compress passed to it.
C1_SingleRoundTrip ==
  long.pc = "done" => long.held = long.offered

\* where every write is whole (reads within the bounds are far shorter than
\* the BufWriter's capacity) the round trip holds: a single-file artifact
\* read back by the single-file reader yields exactly the input pairs, in
\* order, with equal title, sequence, qualities
SingleRoundTripWhole ==
  (pc = "done" /\ Untouched /\ Selected(cmodel) = "single" /\ Selected(dmodel) = "single")
    => RoundTrip

\* C2: a multi-stream artifact read back by the multi-stream reader
\* succeeds and yields exactly the input pairs, in order.
C2_MultiRoundTrip ==
  (pc = "done" /\ Untouched /\ Selected(cmodel) = "multi" /\ Selected(dmodel) = "multi")
    => RoundTrip

\* C3: every pair delivered by the matching decoder carries the sub_title
\* values of the pair that was encoded.
C3_SubTitlePreserved ==
  (Decoding /\ Untouched /\ Selected(cmodel) = Selected(dmodel))
    => \A i \in 1..Len(sink) :
         /\ i <= Len(input)
         /\ sink[i].r1.sub_title = input[i].r1.sub_title
         /\ sink[i].r2.sub_title = input[i].r2.sub_title

\* C4: for both models, the artifact of an empty source is accepted by the
\* same model's decompress, which delivers nothing.
C4_EmptyInput ==
  (pc = "done" /\ Untouched /\ Len(input) = 0 /\ Selected(cmodel) = Selected(dmodel))
    => (result = "Ok" /\ sink = <<>>)

\* C5 as claimed: after the deletion of any one field of any record the
\* single-file reader fails with IncompleteRecord and has delivered only
\* pairs that were encoded.
C5_DeletionDetected ==
  (Decoding /\ tamper.kind = "delete" /\ Selected(dmodel) = "single")
    => /\ \A i \in 1..Len(sink) : \E j \in 1..Len(input) : SamePair(sink[i], input[j])
       /\ (pc = "done" /\ result # "Panic") => result = "IncompleteRecord"

\* no quality byte of read r has the sentinel's value
NoSentinel(r) == \A i \in 1..Len(r.qualities) : r.qualities[i] # 255

\* the damage the reader is bound to notice: in the last record, a quality
\* run that is not empty, or a sentinel-terminated field when no quality
\* byte of that record can pass for a sentinel
LastRecordDamaged ==
  /\ tamper.kind = "delete"
  /\ tamper.rec = Len(input)
  /\ \/ /\ tamper.field = "qualities_r1"
        /\ Len(input[tamper.rec].r1.qualities) > 0
     \/ /\ tamper.field = "qualities_r2"
        /\ Len(input[tamper.rec].r2.qualities) > 0
     \/ /\ tamper.field \in {"title_r1", "title_r2", "sequence_r1", "sequence_r2"}
        /\ NoSentinel(input[tamper.rec].r1)
        /\ NoSentinel(input[tamper.rec].r2)

\* C5 as amended: after the deletion, from the last record, of a non-empty
\* quality run (in particular the final run), or of a sentinel-terminated
\* field with its sentinel when the record's quality bytes are not 0xFF,
\* the single-file reader fails with IncompleteRecord, never returns Ok,
\* and has delivered exactly the pairs before the last one, unchanged.
C5_LastRecordDamageDetected ==
  (Decoding /\ LastRecordDamaged /\ Selected(dmodel) = "single")
    => /\ result # "Ok"
       /\ Len(sink) < Len(input)
       /\ Delivered(Len(sink))
       /\ pc = "done" => (result = "IncompleteRecord" /\ Len(sink) = Len(input) - 1)

C5_Witness ==
  /\ pc = "done" /\ LastRecordDamaged /\ Selected(dmodel) = "single"
  /\ tamper.field = "qualities_r2"
  /\ Len(input) = 2
  /\ Len(sink) = 1
  /\ result = "IncompleteRecord"

\* C6: the single-file reader on a multi-stream artifact ends with
\* MissingVersion or OpenedWithWrongModel and the sink was never called.
C6_WrongModelGuard ==
  (Decoding /\ Untouched /\ Selected(cmodel) = "multi" /\ Selected(dmodel) = "single")
    => /\ pc = "done"
       /\ result \in {"MissingVersion", "OpenedWithWrongModel"}
       /\ sink = <<>>

C6_Witness ==
  /\ pc = "done" /\ Untouched
  /\ Selected(cmodel) = "multi" /\ Selected(dmodel) = "single"
  /\ Len(input) = 2
  /\ Len(qualities_spool) > 0
  /\ result = "MissingVersion"

\* C7: a decoder of one model given the other model's artifact fails with
\* OpenedWithWrongModel.
C7_MismatchIsWrongModel ==
  (pc = "done" /\ Untouched /\ Selected(cmodel) # Selected(dmodel))
    => result = "OpenedWithWrongModel"

\* C8: decompress without a model option decodes the artifact of either
\* encoder successfully.
C8_SelfIdentification ==
  (pc = "done" /\ Untouched /\ dmodel = "None") => RoundTrip

\* ----------------------------------------------------- arbitrary streams
\* the decompressed bytes of the artifact
Payload == XzDecoder(artifact).data

BadMarker(S) ==
  \/ S = <<>>
  \/ FirstIndex(S, 255, 1) = 0
  \/ Take(S, FirstIndex(S, 255, 1)) # FILE_VERSION_SINGLE

\* C9: the single-file reader returns MissingVersion, with no record read
\* and no sink call, exactly when the stream is empty, has no sentinel, or
\* its bytes up to the first sentinel are not the marker.
C9_MagicValidation ==
  (Decoding /\ Selected(dmodel) = "single")
    => IF BadMarker(Payload)
       THEN /\ pc = "done"
            /\ result = "MissingVersion"
            /\ sink = <<>>
            /\ r1 = DefaultRead /\ r2 = DefaultRead
       ELSE result # "MissingVersion"

C9_Witness ==
  /\ pc = "done" /\ Selected(dmodel) = "single"
  /\ result = "MissingVersion"
  /\ FirstIndex(Payload, 255, 1) > 0
  /\ Len(Payload) > Len(FILE_VERSION_SINGLE)

RECURSIVE SinkBytes(_)
\* the stream bytes the delivered pairs occupied
SinkBytes(n) == IF n = 0 THEN 0 ELSE PairLen(sink[n]) + SinkBytes(n - 1)

\* what was left of the stream when the last read_next began
Remaining == Drop(Payload, Len(FILE_VERSION_SINGLE) + SinkBytes(Len(sink)))

\* position of the k-th sentinel of s, 0 if there are fewer
RECURSIVE SentinelAt(_, _)
SentinelAt(s, k) ==
  IF k = 0 THEN 0
  ELSE LET p == SentinelAt(s, k - 1)
       IN IF k > 1 /\ p = 0 THEN 0 ELSE FirstIndex(s, 255, p + 1)

\* s holds a started record and ends before the record is complete
EndsMidRecord(s) ==
  /\ s # <<>>
  /\ \/ SentinelAt(s, 4) = 0
     \/ Len(s) - SentinelAt(s, 4) <
          (SentinelAt(s, 3) - SentinelAt(s, 2) - 1) + (SentinelAt(s, 4) - SentinelAt(s, 3) - 1)

\* a title field that is complete in s is not valid text
BadTitle(s) ==
  \/ /\ SentinelAt(s, 1) > 0
     /\ ~from_utf8(SubSeq(s, 1, SentinelAt(s, 1) - 1))
  \/ /\ SentinelAt(s, 2) > 0
     /\ ~from_utf8(SubSeq(s, SentinelAt(s, 1) + 1, SentinelAt(s, 2) - 1))

Finished == pc = "done" /\ Selected(dmodel) = "single" /\ ~BadMarker(Payload)

\* decompress returned on what its last read_next gave (the process did not
\* abort inside the sink)
ReadEnded == Finished /\ result # "Panic"

\* C10 as claimed: after a valid marker the decoder ends cleanly only with
\* nothing left where title_r1 starts, and a stream that ends later in a
\* record gives IncompleteRecord.
C10_EofTaxonomy ==
  ReadEnded
    => /\ result = "Ok" => Remaining = <<>>
       /\ EndsMidRecord(Remaining) => result = "IncompleteRecord"

\* C10 as amended: the same, except that a complete title field that is
\* not valid text is reported first, as EncodingError.
C10_EofTaxonomyText ==
  ReadEnded
    => /\ result = "Ok" => Remaining = <<>>
       /\ (EndsMidRecord(Remaining) /\ ~BadTitle(Remaining)) => result = "IncompleteRecord"
       /\ (EndsMidRecord(Remaining) /\ BadTitle(Remaining)) => result = "EncodingError"

C10_Witness ==
  /\ Finished
  /\ Len(sink) = 0
  /\ EndsMidRecord(Remaining)
  /\ SentinelAt(Remaining, 4) > 0
  /\ result = "IncompleteRecord"

\* -------------------------------------------------------- text in titles
\* C11: after a valid marker the single-file reader ends with EncodingError
\* exactly when title_r1 or title_r2 of the record being read is complete
\* (sentinel-terminated) and is not valid UTF-8; that pair is not delivered,
\* and bytes of sequence and quality fields never cause EncodingError.
C11_EncodingError ==
  Finished
    => /\ result # "Panic" => (result = "EncodingError" <=> BadTitle(Remaining))
       /\ \A i \in 1..Len(sink) :
            from_utf8(sink[i].r1.title) /\ from_utf8(sink[i].r2.title)

C11_Witness ==
  /\ Finished
  /\ result = "EncodingError"
  /\ Len(sink) = 1
  /\ SentinelAt(Remaining, 1) > 1

\* ------------------------------------------------- damaged compressed bytes
\* C12: when the decompressor reports an I/O error while the marker, a
\* title, a sequence or a quality run is read, decompress returns the IO
\* kind, never IncompleteRecord.  (A run that ends with MissingVersion or
\* EncodingError stopped at a field the damaged stream still yielded whole,
\* and a run that ends in a panic of the sink stopped at a pair it yielded
\* whole, before the decompressor failed.)
C12_CorruptionIsIO ==
  (/\ pc = "done" /\ tamper.kind = "corrupt" /\ corrupt /\ Selected(dmodel) = "single"
   /\ result \notin {"MissingVersion", "EncodingError", "Panic"})
    => result = "IO"

\* ------------------------------------------------------ container layout
\* the entries of the multi-stream container that carry the name p
EntriesNamed(p) == {i \in 1..Len(entries) : entries[i].path = p}

\* C13: once XZMultiStreamWriter.compress has returned Ok, for any number of
\* pairs, the container holds exactly the four entries "metadata", "titles",
\* "nucleotides" and "qualities", each once.
C13_FourEntries ==
  (pc \in {"compressed", "decode", "done"} /\ Selected(cmodel) = "multi")
    => /\ Len(entries) = 4
       /\ \A p \in {PATH_METADATA, PATH_TITLES, PATH_NUCLEOTIDES, PATH_QUALITIES} :
            Cardinality(EntriesNamed(p)) = 1

\* --------------------------------------------------------- entry sizes
\* C14: every entry appended to a container, by XZMultiStreamWriter or by
\* PareArchiveEncoder, declares in its header the number of body bytes
\* written for it.
C14_EntrySizes ==
  /\ \A i \in 1..Len(entries) : entries[i].size = Len(entries[i].body)
  /\ \A i \in 1..Len(arch) : arch[i].size = Len(arch[i].body)

\* C15: once finish() has returned Ok, every later write_stream,
\* write_metadata or write_xz_spool call returns an error and appends no
\* entry.
C15_NoWriteAfterFinish ==
  \A i \in 1..Len(calls) :
    (calls[i].late /\ calls[i].op # "finish")
      => (calls[i].ret # "Ok" /\ ~calls[i].appended)

\* C16: a temporary directory made by PareArchiveDecoder::new exists while
\* the decoder is open and is deleted exactly once on every way out: the
\* failed unpack, a failed get, the drop of the decoder.
C16_TempDirScoped ==
  /\ tmpdir.removed <= tmpdir.created
  /\ tmpdir.exists <=> (tmpdir.created = 1 /\ tmpdir.removed = 0)
  /\ decoder.state = "open" => tmpdir.exists
  /\ decoder.state \in {"failed", "dropped"} => (~tmpdir.exists /\ tmpdir.removed = tmpdir.created)

C16_Witness ==
  /\ decoder.state = "dropped"
  /\ decoder.last = "IO"
  /\ tmpdir.created = 1 /\ tmpdir.removed = 1
  /\ Len(arch) > 1

\* ------------------------------------------------------------- the sink
\* the marker the reader in use expects, and whether the file lacks it
SinkMarker == ReaderVersion(dmodel)

SinkBadMarker ==
  \/ Payload = <<>>
  \/ FirstIndex(Payload, 255, 1) = 0
  \/ Take(Payload, FirstIndex(Payload, 255, 1)) # SinkMarker

\* the records of the first n pairs delivered, and what the stream holds
\* behind the marker and them
SinkStream(n) == Framed([i \in 1..n |-> sink[i]])

SinkRemaining == Drop(Payload, Len(SinkMarker) + SinkBytes(Len(sink)))

\* C18: either reader calls write_next once for each pair it has fully
\* decoded, in the file's order (the pairs delivered are, field by field,
\* the records the decompressed stream holds after its marker, and the input
\* pairs when the file is the one compress made), makes no call after an
\* error (what is left then is nothing, a record cut short or a title that
\* is not text), and when write_next fails stops and returns that error; a
\* write_next that panics is the last call as well.
C18_SinkOrdering ==
  Decoding
    => /\ \A i \in 1..Len(sink) :
            ~sink[i].ok => (i = Len(sink) /\ pc = "done"
                            /\ result \in {"FastQError", "Panic"})
       /\ result \in {"FastQError", "Panic"} => (Len(sink) > 0 /\ ~sink[Len(sink)].ok)
       /\ (Untouched /\ Selected(dmodel) = "single")
            => (Delivered(Len(sink)) /\ (result = "Ok" => Len(sink) = Len(input)))
       /\ IF SinkBadMarker THEN sink = <<>> /\ (pc = "done" => result \in {"MissingVersion", "IO"})
          ELSE /\ SinkMarker \o SinkStream(Len(sink))
                    = Take(Payload, Len(SinkMarker) + SinkBytes(Len(sink)))
               /\ (pc = "done" /\ result \notin {"FastQError", "Panic"})
                    => \/ SinkRemaining = <<>>
                       \/ EndsMidRecord(SinkRemaining)
                       \/ BadTitle(SinkRemaining)

\* the multi-stream reader, handed a file of two different records behind
\* its marker, with a sink that takes the first pair and fails on the second
C18_Witness ==
  /\ pc = "done" /\ Selected(dmodel) = "multi"
  /\ result = "FastQError"
  /\ Len(sink) = 2
  /\ sink[1].ok /\ ~sink[2].ok
  /\ ~SamePair(sink[1], sink[2])

\* -------------------------------------------------------- paired source
\* the paired source has stopped yielding pairs
SourceEnded == src_ret \in {"false", "MissingPairedRead"}

\* C17: both paired readers return false only when no record remains in any
\* input, and end with MissingPairedRead whenever a read has no companion:
\* an interleaved input with an odd number of records, two inputs with
\* different record counts.
C17_PairedEndOfInput ==
  /\ src_ret = "false"
       => \A i \in 1..Len(reader.streams) : reader.pos[i] = Len(reader.streams[i])
  /\ (SourceEnded /\ reader.kind = "interleaved" /\ Len(reader.streams[1]) % 2 = 1)
       => src_ret = "MissingPairedRead"
  /\ (SourceEnded /\ reader.kind = "paired"
        /\ Len(reader.streams[1]) # Len(reader.streams[2]))
       => src_ret = "MissingPairedRead"

\* ---------------------------------------------------- reverse complement
\* C19: applying reverse_complement_nucleotides twice to a vector over the
\* 5-symbol alphabet, the empty one included, gives the vector back.
C19_Involution == applications % 2 = 0 => nucleotides = original

C19_Witness ==
  /\ applications = 2
  /\ Len(original) = 3
  /\ original[1] # original[3]
  /\ reverse_complement_nucleotides(original) # original
  /\ nucleotides = original

\* the pairs (symbol, complement): a-t, t-a, c-g, g-c, n-n
ComplementPairs == {<<97, 116>>, <<116, 97>>, <<99, 103>>, <<103, 99>>, <<110, 110>>}

\* C20: one application to s of length n gives a vector of length n whose
\* i-th symbol (from 0) is the complement of s[n-1-i].
C20_ReverseComplement ==
  applications = 1
    => /\ Len(nucleotides) = Len(original)
       /\ \A i \in 1..Len(original) :
            <<original[Len(original) + 1 - i], nucleotides[i]>> \in ComplementPairs

C20_Witness ==
  /\ applications = 1
  /\ original = <<97, 99, 110>>
  /\ nucleotides = <<110, 103, 116>>

\* ------------------------------------------------------- prefix safety
\* the cut falls on the end of the marker or on the end of a record
AtRecordBoundary(k) == \E j \in 1..(Len(input) + 1) : k = RecordOffset(input, j)

\* the input pairs that lie wholly within the first k bytes
WhollyBefore(k) == {j \in 1..Len(input) : RecordOffset(input, j + 1) <= k}

\* C26: the single-file reader on the first k bytes of a valid stream
\* delivers a prefix of the encoded pairs, unchanged and in order; it ends
\* with MissingVersion when k is inside the marker, with Ok when k is the
\* end of the marker or of a record, with IncompleteRecord otherwise.  (It
\* does not return at all when the sink panics on a pair, which is then one
\* of the encoded pairs.)
C26_PrefixSafety ==
  (Decoding /\ tamper.kind = "truncate" /\ Selected(dmodel) = "single")
    => /\ Len(sink) <= Len(input)
       /\ Delivered(Len(sink))
       /\ Len(sink) <= Cardinality(WhollyBefore(tamper.rec))
       /\ result = "Panic"
            => /\ Len(sink) > 0
               /\ \/ write_next_panics(input[Len(sink)].r1)
                  \/ write_next_panics(input[Len(sink)].r2)
       /\ (pc = "done" /\ result # "Panic") =>
            /\ Len(sink) = Cardinality(WhollyBefore(tamper.rec))
            /\ result = IF tamper.rec < Len(FILE_VERSION_SINGLE) THEN "MissingVersion"
                        ELSE IF AtRecordBoundary(tamper.rec) THEN "Ok"
                        ELSE "IncompleteRecord"

\* a stream of two different pairs cut inside the second record: the first
\* pair is delivered, then IncompleteRecord
C26_Witness ==
  /\ pc = "done" /\ tamper.kind = "truncate" /\ Selected(dmodel) = "single"
  /\ Len(input) = 2 /\ ~SamePair(input[1], input[2])
  /\ tamper.rec > RecordOffset(input, 2)
  /\ tamper.rec < RecordOffset(input, 3)
  /\ Len(sink) = 1
  /\ result = "IncompleteRecord"

\* ------------------------------------------------------------ FASTQ text
RECURSIVE SkipBlank(_)
\* text t without its leading blank (empty or white-space only) lines
SkipBlank(t) ==
  IF Len(t) > 0 /\ Len(trim_end(read_line(t).buf)) = 0
  THEN SkipBlank(read_line(t).rest)
  ELSE t

RECURSIVE LinesOf(_)
\* the lines of text t, each without its newline
LinesOf(t) ==
  IF Len(t) = 0 THEN <<>>
  ELSE <<IF Last(read_line(t).buf) = 10 THEN Front(read_line(t).buf) ELSE read_line(t).buf>>
         \o LinesOf(read_line(t).rest)

\* line l starts with byte c
StartsWith(l, c) == Len(l) > 0 /\ l[1] = c

\* C25: blank lines before a well-formed record are skipped, read_next
\* returns Ok(true) with the read it returns when they are absent; blank
\* lines followed only by the end of the input give Ok(false).
C25_BlankLinesIgnored ==
  fq_ret # "none" =>
    /\ (/\ SkipBlank(fq_last.stream) # fq_last.stream
        /\ FastQFileReader_read_next(SkipBlank(fq_last.stream), fq_last.seq).ret = "true")
         => /\ fq_ret = "true"
            /\ seq = FastQFileReader_read_next(SkipBlank(fq_last.stream), fq_last.seq).buf
    /\ SkipBlank(fq_last.stream) = <<>> => fq_ret = "false"

\* after its leading blank lines text t is the beginning of a record, cut
\* after the title line, the sequence line or the '+' line
TruncatedRecord(t) ==
  LET L == LinesOf(SkipBlank(t)) IN
  /\ Len(L) \in 1..3
  /\ StartsWith(L[1], 64)
  /\ Len(L) >= 2 => nuc_string_to_vec(trim_end(L[2])).ok
  /\ Len(L) >= 3 => StartsWith(L[3], 43)

\* C23: read_next returns Ok(false) only when nothing but blank lines was
\* left, and IncompleteRecord when the input ends after a record's title
\* line and before its sequence, '+' or quality line.
C23_SourceTruncation ==
  fq_ret # "none" =>
    /\ fq_ret = "false" => SkipBlank(fq_last.stream) = <<>>
    /\ TruncatedRecord(fq_last.stream) => fq_ret = "IncompleteRecord"

\* the unread text t begins with the four lines of a record whose sequence
\* line and quality line, trimmed, differ in length
MismatchedRecord(t) ==
  LET L == LinesOf(t) IN
  /\ Len(L) >= 4
  /\ StartsWith(L[1], 64)
  /\ nuc_string_to_vec(trim_end(L[2])).ok
  /\ StartsWith(L[3], 43)
  /\ \A i \in 1..Len(trim_end(L[4])) : is_ascii_graphic(trim_end(L[4])[i])
  /\ Len(trim_end(L[2])) # Len(trim_end(L[4]))

\* read r has as many qualities as letters
SameLength(r) == Len(r.letters) = Len(r.qualities)

\* C22: every read FastQFileReader::read_next returns with Ok(true) and
\* every read either stream reader hands to the sink has as many qualities
\* as letters; a record whose sequence and quality lines differ in length
\* is rejected with MismatchedSequenceLength and the caller's buffer is left
\* as it was.
C22_ReadLengths ==
  /\ fq_ret = "true" => SameLength(seq)
  /\ \A i \in 1..Len(sink) : SameLength(sink[i].r1) /\ SameLength(sink[i].r2)
  /\ (fq_ret # "none" /\ MismatchedRecord(fq_last.stream))
       => (fq_ret = "MismatchedSequenceLength" /\ seq = fq_last.seq)
  /\ fq_ret \notin {"none", "true"} => seq = fq_last.seq

\* the record "@r", "AC", "+s", "" is rejected and the buffer still holds
\* the earlier read
C22_Witness ==
  /\ fq_ret = "MismatchedSequenceLength"
  /\ fq_last.stream = <<64, 114, 10, 65, 67, 10, 43, 115, 10, 10>>
  /\ seq = FastQRead(<<111>>, <<>>, <<97>>, <<1>>)
  /\ fq_reader.line = 0

\* the text the last read_next consumed
Consumed == Take(fq_last.stream, Len(fq_last.stream) - Len(fq_reader.stream))

\* the four lines L are a record in canonical form
Canonical(L) ==
  /\ Len(L) = 4
  /\ \A k \in 1..4 : trim_end(L[k]) = L[k]
  /\ StartsWith(L[1], 64)
  /\ \A i \in 1..Len(L[2]) : L[2][i] \in {65, 84, 67, 71, 78}
  /\ StartsWith(L[3], 43)
  /\ \A i \in 1..Len(L[4]) : L[4][i] \in 33..126
  /\ Len(L[2]) = Len(L[4])

\* C24: write_next(reverse_complement = false) on the read that read_next
\* returned for a canonical record writes the record's four lines again;
\* the read holds each quality as its code minus 32, each base as its
\* lower-case code, the title and the sub_title without '@' and '+'.
C24_TextRoundTrip ==
  /\ (/\ fq_ret # "none"
      /\ Len(LinesOf(fq_last.stream)) >= 4
      /\ Canonical(Take(LinesOf(fq_last.stream), 4)))
       => (fq_ret = "true" /\ LinesOf(Consumed) = Take(LinesOf(fq_last.stream), 4))
  /\ (/\ fq_ret = "true"
      /\ fq_writer.line = fq_reader.line
      /\ ~fq_writer.reverse_complement
      /\ Canonical(LinesOf(Consumed)))
    => LET L == LinesOf(Consumed) IN
       /\ Len(fq_writer.stream) >= Len(JoinLines(L))
       /\ Drop(fq_writer.stream, Len(fq_writer.stream) - Len(JoinLines(L))) = JoinLines(L)
       /\ fq_writer.line = 4 => fq_writer.stream = JoinLines(L)
       /\ seq.title = Drop(L[1], 1)
       /\ seq.sub_title = Drop(L[3], 1)
       /\ seq.letters = [i \in 1..Len(L[2]) |-> L[2][i] + 32]
       /\ seq.qualities = [i \in 1..Len(L[4]) |-> L[4][i] - 32]

\* "@r", "AC", "+s", "@r" read and written back
C24_Witness ==
  /\ fq_ret = "true"
  /\ ~fq_writer.reverse_complement
  /\ fq_last.stream = <<64, 114, 10, 65, 67, 10, 43, 115, 10, 64, 114, 10>>
  /\ seq = FastQRead(<<114>>, <<115>>, <<97, 99>>, <<32, 82>>)
  /\ fq_writer.stream = fq_last.stream

\* --------------------------------------------------------- reverse_r2
\* the record the source parsed for read k (1 or 2) of its i-th pair
Parsed(i, k) ==
  IF reader.kind = "interleaved" THEN reader.streams[1][2 * (i - 1) + k]
  ELSE reader.streams[k][i]

\* C21: the source returns r1 as parsed; r2 as parsed too, but for its
\* sequence, which is the reverse complement of the parsed one when
\* reverse_r2 is set; compress followed by decompress with the same model
\* delivers the pairs the source returned, all four fields of both reads.
C21_ReverseR2 ==
  /\ \A i \in 1..Len(input) :
       /\ input[i].r1 = Parsed(i, 1)
       /\ input[i].r2.title = Parsed(i, 2).title
       /\ input[i].r2.sub_title = Parsed(i, 2).sub_title
       /\ input[i].r2.qualities = Parsed(i, 2).qualities
       /\ Len(input[i].r2.letters) = Len(Parsed(i, 2).letters)
       /\ \A j \in 1..Len(input[i].r2.letters) :
            IF reader.reverse_complement_r2_nucleotides
            THEN <<Parsed(i, 2).letters[Len(input[i].r2.letters) + 1 - j],
                   input[i].r2.letters[j]>> \in ComplementPairs
            ELSE input[i].r2.letters[j] = Parsed(i, 2).letters[j]
  /\ (pc = "done" /\ Selected(cmodel) = Selected(dmodel))
       => /\ result = "Ok"
          /\ Len(sink) = Len(input)
          /\ \A i \in 1..Len(sink) : \A f \in {"title", "sub_title", "letters", "qualities"} :
               /\ sink[i].r1[f] = input[i].r1[f]
               /\ sink[i].r2[f] = input[i].r2[f]

====
